---------------------------- MODULE Spec2Model ----------------------------
(***************************************************************************)
(* Sentry Antivirus: the detection pipeline (signature database, heuristic *)
(* analyzer, ScanEngine._scan_file), the scan orchestrator                 *)
(* (ScanEngine.scan_directory with its worker pool, cancel/pause/resume)   *)
(* and the quarantine store (QuarantineManager).                           *)
(*                                                                         *)
(* File contents are described by what the code reads from them: the       *)
(* SHA-256 digest, and for the header prefix the set of rule patterns that *)
(* occur in it plus the facts the heuristic checks test.                   *)
(***************************************************************************)
EXTENDS Integers, Sequences, FiniteSets, TLC

VARIABLES
    \* ---- SignatureDatabase / HeuristicAnalyzer (rule set) ----
    custom_hashes,      \* SignatureDatabase.custom_hashes: set of [key, name, level]
    custom_patterns,    \* SignatureDatabase.custom_patterns: sequence of rules
    score_threshold,    \* HeuristicAnalyzer.score_threshold
    scanned,            \* the scan_file call that has just returned: file and result
    lookup,             \* the check_hash / check_patterns call that has just returned
    \* ---- heuristic scoring of a buffer and of its extension ----
    before,             \* a header buffer handed to analyze()
    after,              \* the same buffer with one more signal added
    added,              \* the signal that was added ("" before any)
    \* ---- ScanEngine (one scan_directory invocation) ----
    pc,                 \* position of the scan_directory call
    progress,           \* ScanEngine.progress
    cancel_flag,        \* ScanEngine._cancel_flag
    pause_flag,         \* ScanEngine._pause_flag
    results,            \* ScanEngine._results
    files_to_scan,      \* the enumerated files (sequence of files)
    futures,            \* per submitted file: state of its future
    cur,                \* index of the future the loop is aggregating (0: none)
    callbacks,          \* what the caller passed / registered
    cb_log,             \* callbacks invoked since the loop saw the cancel flag
    outcome,            \* how the loop was left, and the progress as of the return
    directory,          \* the directory being scanned (set of files on disk)
    seen,               \* what the last progress callback read from the progress
    \* ---- QuarantineManager ----
    fs,                 \* the file system outside the quarantine: path -> content
    blobs,              \* files in the quarantine directory: quarantine_path -> bytes
    items,              \* QuarantineManager._items
    journal,            \* quarantine.json on disk
    clock,              \* datetime.now(), as a counter
    last_op,            \* the last manager call and what it returned
    faults,             \* I/O failures and tamperings of the disk so far
    q_call,             \* the quarantine_file call taken step by step: its position
    \* ---- RealtimeProtection ----
    rt_status,          \* RealtimeProtection.status
    observer,           \* _observer: <<>> (None) or <<id>> of a watcher
    scan_thread,        \* _scan_thread: <<>> (None) or <<id>> of a consumer thread
    watchers,           \* ids of the Observer threads that are running
    consumers,          \* the _scan_worker threads that are running: id -> position
    stop_event,         \* _stop_event
    scan_queue,         \* _scan_queue
    recent_files,       \* _recent_files
    events,             \* _events
    watched_paths,      \* _watched_paths
    auto_quarantine,    \* _auto_quarantine
    notified,           \* number of _notify_threat broadcasts so far
    starts,             \* number of start() calls that did not find the monitor ENABLED
    arrivals,           \* number of _queue_file calls so far
    rt_last,            \* the last monitor step and what it did
    watchdog_available, \* WATCHDOG_AVAILABLE: the watchdog package was imported
    event_callbacks,    \* _event_callbacks: what each registered callback does
    threat_callbacks    \* _threat_callbacks

detectVars == <<custom_hashes, custom_patterns, score_threshold, scanned, lookup>>
heurVars   == <<before, after, added>>
scanVars   == <<pc, progress, cancel_flag, pause_flag, results, files_to_scan,
                futures, cur, callbacks, cb_log, outcome, directory, seen>>
quarVars   == <<fs, blobs, items, journal, clock, last_op, faults, q_call>>
rtVars     == <<rt_status, observer, scan_thread, watchers, consumers, stop_event,
                scan_queue, recent_files, events, watched_paths, auto_quarantine,
                notified, starts, arrivals, rt_last, watchdog_available,
                event_callbacks, threat_callbacks>>
vars       == <<detectVars, heurVars, scanVars, quarVars, rtVars>>

(***************************************************************************)
(* ThreatLevel                                                             *)
(***************************************************************************)
ThreatLevel == {"CLEAN", "LOW", "MEDIUM", "HIGH", "CRITICAL"}

None == "None"

(***************************************************************************)
(* Hashes. A hex digest is a digest value written in some letter case;     *)
(* hashlib's hexdigest() writes lower case and str.lower() lowers a key.   *)
(***************************************************************************)
EICAR_SHA256 == "275a021bbfb6489e"
EMPTY_SHA256 == "e3b0c44298fc1c14"
Digests == {EICAR_SHA256, EMPTY_SHA256, "aaaa0001", "bbbb0002"}
Cases == {"lower", "upper"}
HexStrings == [hex : Digests, case : Cases]

hexdigest(d) == [hex |-> d, case |-> "lower"]
lower(h) == [h EXCEPT !.case = "lower"]

KNOWN_HASHES ==
    { [key |-> hexdigest(EICAR_SHA256), name |-> "EICAR-Test-File", level |-> "LOW"],
      [key |-> hexdigest(EMPTY_SHA256), name |-> "Empty.File.Suspicion", level |-> "LOW"] }

(***************************************************************************)
(* Pattern rules, in list order. A rule's pattern is named by a token; a   *)
(* header is searched for it (substring or re.search) and the model keeps, *)
(* per header, the set of pattern tokens that occur in it.                 *)
(***************************************************************************)
MALICIOUS_PATTERNS ==
    << [name |-> "EICAR-Test-Pattern",             pattern |-> "eicar",     level |-> "LOW"],
       [name |-> "Suspicious.PowerShell.Download", pattern |-> "psdownload", level |-> "MEDIUM"],
       [name |-> "Suspicious.Base64.Payload",      pattern |-> "b64payload", level |-> "HIGH"],
       [name |-> "Suspicious.Registry.Run",        pattern |-> "regrun",    level |-> "MEDIUM"],
       [name |-> "Suspicious.Disable.Security",    pattern |-> "disablesec", level |-> "HIGH"],
       [name |-> "Suspicious.Shadow.Delete",       pattern |-> "vssadmin",  level |-> "CRITICAL"],
       [name |-> "Suspicious.BCDEdit.NoRecovery",  pattern |-> "bcdedit",   level |-> "CRITICAL"],
       [name |-> "Trojan.Generic.Shellcode",       pattern |-> "shellcode", level |-> "CRITICAL"],
       [name |-> "Suspicious.Mimikatz.Strings",    pattern |-> "mimikatz",  level |-> "CRITICAL"],
       [name |-> "Suspicious.Keylogger.Pattern",   pattern |-> "keylogger", level |-> "HIGH"] >>

BuiltinPatternTokens == { MALICIOUS_PATTERNS[i].pattern : i \in 1..Len(MALICIOUS_PATTERNS) }
CustomPatternTokens == {"custom1", "custom2"}
PatternTokens == BuiltinPatternTokens \cup CustomPatternTokens


(***************************************************************************)
(* SignatureDatabase.check_hash / check_patterns / add_*_signature         *)
(***************************************************************************)
\* what a lookup returns: the matching entry's name and level, or NoMatch (None)
NoMatch == [name |-> None, level |-> None]
Hit(e) == [name |-> e.name, level |-> e.level]

\* dict lookup: the entry of table `tbl` stored under key k
Has(tbl, k) == \E e \in tbl : e.key = k
Get(tbl, k) == Hit(CHOOSE e \in tbl : e.key = k)

check_hash(customs, file_hash) ==
    LET k == lower(file_hash) IN
    IF Has(KNOWN_HASHES, k) THEN Get(KNOWN_HASHES, k)
    ELSE IF Has(customs, k) THEN Get(customs, k)
    ELSE NoMatch

\* indexes of the rules of `rules` whose pattern occurs in the data
Matching(rules, pats) == { i \in 1..Len(rules) : rules[i].pattern \in pats }

FirstMatch(rules, pats) ==
    IF Matching(rules, pats) = {} THEN NoMatch
    ELSE LET i == CHOOSE i \in Matching(rules, pats) :
                      \A j \in Matching(rules, pats) : i <= j
         IN  Hit(rules[i])

\* the custom rules searched before the built-in ones
check_patterns_CustomFirst(customs, pats) ==
    IF FirstMatch(customs, pats) # NoMatch
    THEN FirstMatch(customs, pats)
    ELSE FirstMatch(MALICIOUS_PATTERNS, pats)

check_patterns(customs, pats) ==
    IF FirstMatch(MALICIOUS_PATTERNS, pats) # NoMatch
    THEN FirstMatch(MALICIOUS_PATTERNS, pats)
    ELSE FirstMatch(customs, pats)

(***************************************************************************)
(* HeuristicAnalyzer. A header buffer is described by the facts the checks *)
(* test: the file extension, the length class, the leading bytes, whether  *)
(* a PE signature sits at the offset stored at bytes 60..63, whether the   *)
(* characteristics word is inside the buffer, and the set of signals       *)
(* (byte strings or regex matches) present in it.                          *)
(***************************************************************************)
SUSPICIOUS_STRINGS ==
    << [desc |-> "Hardcoded IP address",      points |-> 10],
       [desc |-> "Tor network reference",     points |-> 15],
       [desc |-> "Process injection APIs",    points |-> 25],
       [desc |-> "Low-level thread creation", points |-> 20],
       [desc |-> "Keyboard/mouse hooking",    points |-> 15],
       [desc |-> "Anti-debugging",            points |-> 20],
       [desc |-> "VM detection",              points |-> 15],
       [desc |-> "Analysis tool detection",   points |-> 20],
       [desc |-> "Scheduled task creation",   points |-> 15],
       [desc |-> "Registry run key",          points |-> 15],
       [desc |-> "Credential harvesting",     points |-> 15],
       [desc |-> "Sensitive data keywords",   points |-> 10],
       [desc |-> "Cryptographic operations",  points |-> 10],
       [desc |-> "Cryptocurrency reference",  points |-> 15],
       [desc |-> "Ransomware message",        points |-> 30] >>

StringSignals == { SUSPICIOUS_STRINGS[i].desc : i \in 1..Len(SUSPICIOUS_STRINGS) }
SectionSignals == {".UPX", ".aspack", ".adata", "UPX0", "UPX1", ".nsp"}
ScriptSignals == {"powershell", "ps-encoded", "ps-download", "ps-bypass",
                  "carets>10", "var-substring", "vbs-exec", "js-eval"}
PeFlagSignals == {"char-dll", "char-norelocs"}
ByteSignals == {"dos-stub", "mz-past-512", "high-entropy"}
Signals == StringSignals \cup SectionSignals \cup ScriptSignals
             \cup PeFlagSignals \cup ByteSignals

MagicExts == {".exe", ".dll", ".pdf", ".zip", ".rar", ".7z", ".png", ".jpg",
              ".gif", ".doc", ".docx"}
ExeExts == {".exe", ".dll"}

\* sum of f[x] over the finite set S
RECURSIVE SumOver(_, _)
SumOver(S, f) ==
    IF S = {} THEN 0
    ELSE LET x == CHOOSE x \in S : TRUE IN f[x] + SumOver(S \ {x}, f)

\* _check_extension_mismatch: the score of the finding (0: no finding)
check_extension_mismatch(b) ==
    LET matches == \/ b.prefix = "magic"
                   \/ b.prefix = "MZ" /\ b.ext \in ExeExts
    IN  IF b.ext \in MagicExts /\ ~matches /\ b.len # "le2"
        THEN IF b.prefix = "MZ" /\ b.ext \notin {".exe", ".dll", ".scr", ".com"} THEN 30
             ELSE IF b.ext \in ExeExts /\ b.prefix # "MZ" THEN 15
             ELSE 0
        ELSE 0

is_pe_file(b) == b.len = "ge64" /\ b.prefix = "MZ" /\ b.peSig

analyze_pe(b) ==
      (IF b.hdr24 /\ "char-norelocs" \in b.sigs THEN 10 ELSE 0)
    + 15 * Cardinality(SectionSignals \cap b.sigs)
    + (IF "dos-stub" \in b.sigs THEN 0
       ELSE IF "mz-past-512" \in b.sigs THEN 10 ELSE 0)

\* only the first table entry that matches is counted
check_suspicious_strings_FirstOnly(b) ==
    LET hit == { i \in 1..Len(SUSPICIOUS_STRINGS) : SUSPICIOUS_STRINGS[i].desc \in b.sigs }
    IN  IF hit = {} THEN 0
        ELSE SUSPICIOUS_STRINGS[CHOOSE i \in hit : \A j \in hit : i <= j].points

check_suspicious_strings(b) ==
    LET hit == { i \in 1..Len(SUSPICIOUS_STRINGS) : SUSPICIOUS_STRINGS[i].desc \in b.sigs }
    IN  SumOver(hit, [i \in hit |-> SUSPICIOUS_STRINGS[i].points])

check_script_threats(b) ==
      (IF b.ext \in {".ps1", ".psm1", ".psd1"} \/ "powershell" \in b.sigs
       THEN   (IF "ps-encoded"  \in b.sigs THEN 20 ELSE 0)
            + (IF "ps-download" \in b.sigs THEN 25 ELSE 0)
            + (IF "ps-bypass"   \in b.sigs THEN 15 ELSE 0)
       ELSE 0)
    + (IF b.ext \in {".bat", ".cmd"}
       THEN   (IF "carets>10"     \in b.sigs THEN 15 ELSE 0)
            + (IF "var-substring" \in b.sigs THEN 15 ELSE 0)
       ELSE 0)
    + (IF b.ext \in {".vbs", ".vbe"} /\ "vbs-exec" \in b.sigs THEN 15 ELSE 0)
    + (IF b.ext \in {".js", ".jse"} /\ "js-eval" \in b.sigs THEN 15 ELSE 0)

Score(b) ==
      check_extension_mismatch(b)
    + (IF is_pe_file(b) THEN analyze_pe(b) ELSE 0)
    + (IF "high-entropy" \in b.sigs THEN 20 ELSE 0)
    + check_suspicious_strings(b)
    + check_script_threats(b)

ScoreLevel(score) ==
    IF score >= 80 THEN "CRITICAL"
    ELSE IF score >= 60 THEN "HIGH"
    ELSE IF score >= 40 THEN "MEDIUM"
    ELSE IF score >= 20 THEN "LOW"
    ELSE "CLEAN"

\* the gate compares against the fixed default instead of the current threshold
analyze_FixedGate(threshold, b) ==
    [ is_suspicious |-> Score(b) >= 50,
      score         |-> Score(b),
      level         |-> ScoreLevel(Score(b)),
      name          |-> IF Score(b) >= 50 THEN "Heuristic.Suspicious.Gen" ELSE None ]

analyze(threshold, b) ==
    [ is_suspicious |-> Score(b) >= threshold,
      score         |-> Score(b),
      level         |-> ScoreLevel(Score(b)),
      name          |-> IF Score(b) >= threshold THEN "Heuristic.Suspicious.Gen" ELSE None ]


(***************************************************************************)
(* Files. A file on disk is described by its path, whether hashing it and  *)
(* reading its header succeed (I/O errors), whether some other exception   *)
(* is raised while it is classified, its SHA-256, the rule patterns that   *)
(* occur in its first 8192 bytes, and the header buffer as the heuristic   *)
(* analyzer sees it.                                                       *)
(***************************************************************************)
Buffer(ext, len, prefix, peSig, hdr24, sigs) ==
    [ext |-> ext, len |-> len, prefix |-> prefix, peSig |-> peSig,
     hdr24 |-> hdr24, sigs |-> sigs]

\* what a byte string can be: the facts do not contradict each other
WellFormedBuffer(b) ==
    /\ b.len \in {"zero", "le2", "lt64", "ge64"}
    /\ b.prefix \in {"MZ", "magic", "other"}
    /\ b.len = "zero" => b.prefix = "other"
    /\ b.prefix = "magic" => b.ext \in MagicExts \ ExeExts /\ b.len \in {"lt64", "ge64"}
    /\ b.peSig => b.prefix = "MZ" /\ b.len = "ge64"
    /\ b.hdr24 => b.peSig
    /\ b.sigs \subseteq Signals
    /\ b.len \in {"zero", "le2"} => b.sigs = {}
    /\ b.sigs \cap (ByteSignals \cup SectionSignals) # {} => b.len = "ge64"
    /\ b.sigs \cap PeFlagSignals # {} => b.hdr24

EmptyBuffer(ext) == Buffer(ext, "zero", "other", FALSE, FALSE, {})
\* the 68 bytes of the EICAR test string
EicarBuffer(ext) == Buffer(ext, "ge64", "other", FALSE, FALSE, {})

File(name, hashOK, headOK, fault, digest, pats, buf) ==
    [name |-> name, hashOK |-> hashOK, headOK |-> headOK, fault |-> fault,
     digest |-> digest, pats |-> pats, buf |-> buf]

\* SHA-256 is taken to be collision free: the two digests the database knows
\* belong to the empty content and to the EICAR string
WellFormedFile(f) ==
    /\ WellFormedBuffer(f.buf)
    /\ (f.digest = EMPTY_SHA256) = (f.buf.len = "zero")
    /\ f.buf.len = "zero" => f.pats = {}
    /\ f.digest = EICAR_SHA256 =>
          /\ f.buf = EicarBuffer(f.buf.ext)
          /\ f.pats \cap BuiltinPatternTokens = {"eicar"}

(***************************************************************************)
(* ScanResult and ScanEngine._scan_file, lines 155-211 (the try block).    *)
(* Classify returns the ScanResult and whether heuristics.analyze ran.     *)
(***************************************************************************)
Result(path, level, name, desc, hash, method) ==
    [file_path |-> path, threat_level |-> level, threat_name |-> name,
     threat_description |-> desc, file_hash |-> hash, detection_method |-> method]

\* a LOW finding does not count as a threat
is_threat_AboveLow(r) == r.threat_level \notin {"CLEAN", "LOW"}

\* ScanResult.is_threat
is_threat(r) == r.threat_level # "CLEAN"

\* _calculate_file_hash: the lower-case hex digest, None on an I/O error
calculate_file_hash(f) == IF f.hashOK THEN f.digest ELSE None

\* `if header:` : the header was read and is not empty
HeaderTruthy(f) == f.headOK /\ f.buf.len # "zero"

has_findings(b) ==
    Score(b) > 0 \/ (is_pe_file(b) /\ b.hdr24 /\ "char-dll" \in b.sigs)

HeuristicResult(f, h, file_hash) ==
    Result(f.name, h.level, h.name,
           IF has_findings(f.buf) THEN "findings" ELSE "No suspicious indicators",
           file_hash, "heuristic")

CleanResult(f, file_hash) ==
    Result(f.name, "CLEAN", None, None, file_hash, "signature")

\* the heuristic check runs before the pattern check
Classify_HeuristicFirst(f, chashes, cpatterns, threshold) ==
    LET file_hash == calculate_file_hash(f)
        sig == IF file_hash # None THEN check_hash(chashes, hexdigest(file_hash)) ELSE NoMatch
        pat == check_patterns(cpatterns, f.pats)
        h   == analyze(threshold, f.buf)
    IN  IF f.fault
        THEN [result |-> Result(f.name, "CLEAN", None, "Error scanning", None, "signature"),
              analyzed |-> FALSE]
        ELSE IF sig # NoMatch
        THEN [result |-> Result(f.name, sig.level, sig.name, "signature description",
                                file_hash, "signature"),
              analyzed |-> FALSE]
        ELSE IF HeaderTruthy(f) /\ h.is_suspicious
        THEN [result |-> HeuristicResult(f, h, file_hash), analyzed |-> TRUE]
        ELSE IF HeaderTruthy(f) /\ pat # NoMatch
        THEN [result |-> Result(f.name, pat.level, pat.name, "pattern description",
                                file_hash, "pattern"),
              analyzed |-> TRUE]
        ELSE [result |-> CleanResult(f, file_hash), analyzed |-> HeaderTruthy(f)]

\* the pattern check runs before the hash lookup
Classify_PatternFirst(f, chashes, cpatterns, threshold) ==
    LET file_hash == calculate_file_hash(f)
        sig == IF file_hash # None THEN check_hash(chashes, hexdigest(file_hash)) ELSE NoMatch
        pat == check_patterns(cpatterns, f.pats)
        h   == analyze(threshold, f.buf)
    IN  IF f.fault
        THEN [result |-> Result(f.name, "CLEAN", None, "Error scanning", None, "signature"),
              analyzed |-> FALSE]
        ELSE IF HeaderTruthy(f) /\ pat # NoMatch
        THEN [result |-> Result(f.name, pat.level, pat.name, "pattern description",
                                file_hash, "pattern"),
              analyzed |-> FALSE]
        ELSE IF sig # NoMatch
        THEN [result |-> Result(f.name, sig.level, sig.name, "signature description",
                                file_hash, "signature"),
              analyzed |-> FALSE]
        ELSE IF HeaderTruthy(f) /\ h.is_suspicious
        THEN [result |-> HeuristicResult(f, h, file_hash), analyzed |-> TRUE]
        ELSE [result |-> CleanResult(f, file_hash), analyzed |-> HeaderTruthy(f)]

Classify(f, chashes, cpatterns, threshold) ==
    LET file_hash == calculate_file_hash(f)
        sig == IF file_hash # None THEN check_hash(chashes, hexdigest(file_hash)) ELSE NoMatch
        pat == check_patterns(cpatterns, f.pats)
        h   == analyze(threshold, f.buf)
    IN  IF f.fault
        THEN \* except Exception as e (an exception that is not an I/O error)
             [result |-> Result(f.name, "CLEAN", None, "Error scanning", None, "signature"),
              analyzed |-> FALSE]
        ELSE IF sig # NoMatch
        THEN [result |-> Result(f.name, sig.level, sig.name, "signature description",
                                file_hash, "signature"),
              analyzed |-> FALSE]
        ELSE IF HeaderTruthy(f) /\ pat # NoMatch
        THEN [result |-> Result(f.name, pat.level, pat.name, "pattern description",
                                file_hash, "pattern"),
              analyzed |-> FALSE]
        ELSE IF HeaderTruthy(f) /\ h.is_suspicious
        THEN [result |-> HeuristicResult(f, h, file_hash), analyzed |-> TRUE]
        ELSE [result |-> CleanResult(f, file_hash), analyzed |-> HeaderTruthy(f)]

\* _scan_file as a whole: the cancel check of lines 144-149, then the try block
CancelledResult(f) == Result(f.name, "CLEAN", None, "Scan cancelled", None, "signature")


(***************************************************************************)
(* Bounds and input sets                                                   *)
(***************************************************************************)
MaxCustom == 1             \* custom signatures (hash entries plus pattern rules)
MaxSignals == 1            \* signals present in a buffer before one is added
MaxFiles == 2              \* files in a scanned directory
MaxContentLen == 2         \* bytes in a quarantined file
MaxQuarantines == 2
MaxFaults == 2        \* quarantine_file calls

\* HeuristicAnalyzer.__init__
DefaultThreshold == 50
\* what set_threshold is called with: the settings profiles High (30) and
\* Medium (50), and 0, which the method accepts as well
Thresholds == {0, 30, DefaultThreshold}

CustomNames == {"Custom.Sig"}
CustomLevels == {"CRITICAL"}
\* patterns of custom rules: new ones, or the bytes of a built-in rule again
CustomRuleTokens == {"custom1", "eicar"}

\* contents handed to scan_file in the detection specification
DetectDigests == {EICAR_SHA256, EMPTY_SHA256, "aaaa0001"}
DetectPatternTokens == {"eicar", "vssadmin", "custom1"}
DetectBuffers ==
    { EmptyBuffer(".exe"), EicarBuffer(".exe") } \cup
    { Buffer(".exe", "ge64", "MZ", FALSE, FALSE, sigs) :
        sigs \in SUBSET {"Ransomware message", "Process injection APIs"} }
\* <<hashOK, headOK, fault>>: no error, the hash cannot be read, nothing can
\* be read, an exception other than an I/O error
IoOutcomes == {<<TRUE, TRUE, FALSE>>, <<FALSE, TRUE, FALSE>>,
               <<FALSE, FALSE, FALSE>>, <<TRUE, TRUE, TRUE>>}
DetectFiles ==
    { f \in { File("sample.exe", io[1], io[2], io[3], d, pats, b) :
                io \in IoOutcomes,
                d \in DetectDigests, pats \in SUBSET DetectPatternTokens,
                b \in DetectBuffers } :
        WellFormedFile(f) }

(***************************************************************************)
(* The detection specification: the rule set is changed and single files   *)
(* are scanned with ScanEngine.scan_file.                                  *)
(***************************************************************************)
NotScanned == [called |-> FALSE]
NotLooked == [called |-> FALSE]

\* what the actions of the detection specification leave alone
detectFrame == <<lookup, heurVars, quarVars, rtVars, pc, progress, cancel_flag, pause_flag, results,
                 files_to_scan, futures, cur, callbacks, cb_log, outcome, directory,
                 seen>>

\* SignatureDatabase.add_hash_signature: custom_hashes[file_hash.lower()] = {...}
add_hash_signature(file_hash, name, level) ==
    /\ Cardinality({e.key : e \in custom_hashes} \cup {lower(file_hash)})
          + Len(custom_patterns) <= MaxCustom
    /\ custom_hashes' = { e \in custom_hashes : e.key # lower(file_hash) }
                          \cup { [key |-> lower(file_hash), name |-> name, level |-> level] }
    /\ scanned' = NotScanned
    /\ UNCHANGED <<custom_patterns, score_threshold, detectFrame>>

\* SignatureDatabase.add_pattern_signature: custom_patterns.append({...})
add_pattern_signature(pattern, name, level) ==
    /\ Cardinality(custom_hashes) + Len(custom_patterns) < MaxCustom
    /\ custom_patterns' = Append(custom_patterns,
                                 [name |-> name, pattern |-> pattern, level |-> level])
    /\ scanned' = NotScanned
    /\ UNCHANGED <<custom_hashes, score_threshold, detectFrame>>

\* HeuristicAnalyzer.set_threshold
set_threshold(threshold) ==
    /\ score_threshold' = threshold
    /\ scanned' = NotScanned
    /\ UNCHANGED <<custom_hashes, custom_patterns, detectFrame>>

\* ScanEngine.scan_file -> _scan_file: the cancel check, the pause wait loop,
\* then the detection pipeline
scan_file(f) ==
    /\ ~pause_flag \/ cancel_flag
    /\ scanned' =
          IF cancel_flag
          THEN [called |-> TRUE, file |-> f, cancelled |-> TRUE,
                result |-> CancelledResult(f), analyzed |-> FALSE]
          ELSE LET c == Classify(f, custom_hashes, custom_patterns, score_threshold)
               IN  [called |-> TRUE, file |-> f, cancelled |-> FALSE,
                    result |-> c.result, analyzed |-> c.analyzed]
    /\ UNCHANGED <<custom_hashes, custom_patterns, score_threshold, detectFrame>>

(***************************************************************************)
(* Construction: SignatureDatabase(), HeuristicAnalyzer(), ScanEngine(),   *)
(* QuarantineManager() over an empty quarantine directory.                 *)
(***************************************************************************)
NoBuffer == Buffer("", "zero", "other", FALSE, FALSE, {})

InitDetect ==
    /\ custom_hashes = {}
    /\ custom_patterns = <<>>
    /\ score_threshold = DefaultThreshold
    /\ scanned = NotScanned
    /\ lookup = NotLooked

InitHeurIdle ==
    /\ before = NoBuffer
    /\ after = NoBuffer
    /\ added = ""

\* scan_directory has not returned: no progress as of the return
NotReturned == [status |-> "none", total_files |-> 0, scanned_files |-> 0,
                threats_found |-> 0]

\* no progress callback has been invoked yet
NotSeen == [by |-> "none", scanned_files |-> 0, recorded |-> 0]

InitScan ==
    /\ pc = "idle"
    /\ progress = [status |-> "idle", total_files |-> 0, scanned_files |-> 0,
                   threats_found |-> 0]
    /\ cancel_flag = FALSE
    /\ pause_flag = FALSE
    /\ results = <<>>
    /\ files_to_scan = <<>>
    /\ futures = <<>>
    /\ cur = 0
    /\ callbacks = [on_threat_found |-> "none", progress |-> "none"]
    /\ cb_log = {}
    /\ outcome = [left |-> "none", final |-> NotReturned]
    /\ directory = {}
    /\ seen = NotSeen

InitQuarantine ==
    /\ fs = {}
    /\ blobs = {}
    /\ items = {}
    /\ journal = {}
    /\ clock = 0
    /\ last_op = [op |-> "none"]
    /\ faults = 0
    /\ q_call = [pc |-> "idle"]

\* RealtimeProtection.__init__
\* RealtimeProtection.__init__
InitMonitor ==
    /\ event_callbacks = <<>>
    /\ threat_callbacks = <<>>
    /\ rt_status = "DISABLED"
    /\ observer = <<>>
    /\ scan_thread = <<>>
    /\ watchers = {}
    /\ consumers = {}
    /\ stop_event = FALSE
    /\ scan_queue = <<>>
    /\ recent_files = {}
    /\ events = <<>>
    /\ watched_paths = {}
    /\ auto_quarantine = FALSE
    /\ notified = 0
    /\ starts = 0
    /\ arrivals = 0
    /\ rt_last = [op |-> "none"]

\* the monitor of a process in which `import watchdog` succeeded
InitRealtime == watchdog_available = TRUE /\ InitMonitor

Init == InitDetect /\ InitHeurIdle /\ InitScan /\ InitQuarantine /\ InitRealtime

NextDetect ==
    \/ \E h \in [hex : DetectDigests, case : Cases], n \in CustomNames, l \in CustomLevels :
          add_hash_signature(h, n, l)
    \/ \E p \in CustomRuleTokens, n \in CustomNames, l \in CustomLevels :
          add_pattern_signature(p, n, l)
    \/ \E t \in Thresholds : set_threshold(t)
    \/ \E f \in DetectFiles : scan_file(f)

SpecDetect == Init /\ [][NextDetect]_vars


(***************************************************************************)
(* Claims about the detection pipeline (checked under SpecDetect).         *)
(* A scan "reaches the pipeline" when _scan_file got past its cancel check *)
(* and no exception other than an I/O error was raised.                    *)
(***************************************************************************)
Classified == scanned.called /\ ~scanned.cancelled /\ ~scanned.file.fault

\* the file's SHA-256 was computed and equals the entry's hash
HashEquals(e) == scanned.file.hashOK /\ hexdigest(scanned.file.digest) = e.key

ReturnsEntry(e) ==
    /\ scanned.result.threat_level = e.level
    /\ scanned.result.threat_name = e.name
    /\ scanned.result.detection_method = "signature"

\* C2 as stated: for EVERY hash-signature entry of the database (built-in or
\* custom), a scan of a file whose SHA-256 equals the entry's hash returns that
\* entry's level and name with method signature.
C2_EveryEntryReturned ==
    \A e \in KNOWN_HASHES \cup custom_hashes :
        (Classified /\ HashEquals(e)) => ReturnsEntry(e)

\* C2 amended: the same for every entry that is the first match for its hash,
\* that is every built-in entry and every custom entry whose hash is not also a
\* built-in hash, whatever patterns the content holds and whatever it scores.
C2_FirstEntryReturned ==
    \A e \in KNOWN_HASHES \cup { c \in custom_hashes : ~Has(KNOWN_HASHES, c.key) } :
        (Classified /\ HashEquals(e)) => ReturnsEntry(e)

\* a custom entry is returned for content that also holds a rule pattern and
\* scores at or above the threshold
C2_Witness ==
    /\ Classified
    /\ \E e \in custom_hashes : HashEquals(e) /\ ReturnsEntry(e)
    /\ scanned.file.headOK
    /\ "vssadmin" \in scanned.file.pats
    /\ Score(scanned.file.buf) >= score_threshold

\* the rule list searched: built-in rules, then custom rules
AllRules == MALICIOUS_PATTERNS \o custom_patterns

HashUnknown ==
    ~scanned.file.hashOK
    \/ ~Has(KNOWN_HASHES \cup custom_hashes, hexdigest(scanned.file.digest))

\* C3: a file whose header was read and holds the pattern of a configured rule,
\* and whose hash is not a known signature, is returned with method pattern and
\* the level of the earliest matching rule, and heuristics.analyze is not called.
C3_PatternBeforeHeuristic ==
    (Classified /\ HashUnknown /\ HeaderTruthy(scanned.file)
        /\ Matching(AllRules, scanned.file.pats) # {})
    => LET m == Matching(AllRules, scanned.file.pats)
           first == CHOOSE i \in m : \A j \in m : i <= j
       IN  /\ scanned.result.detection_method = "pattern"
           /\ scanned.result.threat_level = AllRules[first].level
           /\ scanned.result.threat_name = AllRules[first].name
           /\ ~scanned.analyzed

\* a pattern result for a header that holds two rules' patterns and whose
\* heuristic score reaches the threshold
C3_Witness ==
    /\ Classified /\ HashUnknown
    /\ scanned.result.detection_method = "pattern"
    /\ Cardinality(Matching(AllRules, scanned.file.pats)) >= 2
    /\ Score(scanned.file.buf) >= score_threshold
    /\ Score(scanned.file.buf) > 0

\* C4: for every threshold and every file that misses the hash and pattern
\* checks (its header read and not empty), the result has method heuristic
\* exactly when the score is >= the threshold; below the threshold the result is
\* CLEAN with no threat name and no description.
C4_ThresholdGate ==
    (Classified /\ HashUnknown /\ HeaderTruthy(scanned.file)
        /\ Matching(AllRules, scanned.file.pats) = {})
    => /\ (scanned.result.detection_method = "heuristic")
             = (Score(scanned.file.buf) >= score_threshold)
       /\ Score(scanned.file.buf) < score_threshold =>
             /\ scanned.result.threat_level = "CLEAN"
             /\ scanned.result.threat_name = None
             /\ scanned.result.threat_description = None

\* a heuristic result under a lowered threshold, for a score the default
\* threshold would have discarded
C4_Witness ==
    /\ Classified /\ HashUnknown
    /\ scanned.result.detection_method = "heuristic"
    /\ score_threshold = 30
    /\ Score(scanned.file.buf) < DefaultThreshold


(***************************************************************************)
(* The heuristic specification: HeuristicAnalyzer.analyze scores a buffer, *)
(* then the buffer with one more signal written into it.                   *)
(***************************************************************************)
HeurExts == {".exe", ".pdf", ".ps1", ".bat", ".js"}

\* the subsets of S with at most k elements
RECURSIVE SubsetsUpTo(_, _)
SubsetsUpTo(S, k) ==
    IF k = 0 THEN {{}}
    ELSE LET smaller == SubsetsUpTo(S, k - 1)
         IN  smaller \cup { x \cup {e} : x \in smaller, e \in S }

HeurBuffers ==
    { b \in { Buffer(ext, st[1], st[2], st[3], st[4], sigs) :
                ext \in HeurExts,
                st \in {"zero", "le2", "lt64", "ge64"} \X {"MZ", "magic", "other"}
                         \X BOOLEAN \X BOOLEAN,
                sigs \in SubsetsUpTo(Signals, MaxSignals) } :
        WellFormedBuffer(b) }

\* markers that are written at a fixed place rather than appended
StructureMarkers == {"mz-prefix", "pe-signature"}
Addable == Signals \cup StructureMarkers

\* the length class after bytes holding signal s were appended
Grown(len, s) ==
    IF s \in ByteSignals \cup SectionSignals \cup PeFlagSignals \cup {"pe-signature"}
    THEN "ge64"
    ELSE IF len \in {"zero", "le2"} THEN "lt64" ELSE len

\* buffer b with signal s added; `dilute`: the added bytes take the Shannon
\* entropy of the buffer back under ENTROPY_THRESHOLD
Extended(b, s, dilute) ==
    LET kept == IF dilute /\ s # "high-entropy" THEN b.sigs \ {"high-entropy"} ELSE b.sigs
    IN  CASE s = "mz-prefix" ->
               [b EXCEPT !.prefix = "MZ", !.sigs = kept,
                         !.len = IF b.len = "zero" THEN "le2" ELSE b.len]
          [] s = "pe-signature" ->
               [b EXCEPT !.peSig = TRUE, !.len = "ge64", !.sigs = kept]
          [] s \in PeFlagSignals ->
               [b EXCEPT !.hdr24 = TRUE, !.sigs = kept \cup {s}]
          [] OTHER ->
               [b EXCEPT !.len = Grown(b.len, s), !.sigs = kept \cup {s}]

\* the first analyze call: any header, nothing added yet
InitHeurBuffers ==
    /\ before \in HeurBuffers
    /\ after = before
    /\ added = ""

InitHeur == InitDetect /\ InitHeurBuffers /\ InitScan /\ InitQuarantine /\ InitRealtime

heurFrame == <<detectVars, scanVars, quarVars, rtVars>>

\* one more signal is written into the buffer and analyze() is run again
add_signal(s, dilute) ==
    /\ added = ""
    /\ s \notin before.sigs
    /\ s = "mz-prefix" => before.prefix # "MZ"
    /\ s = "pe-signature" => before.prefix = "MZ" /\ ~before.peSig
    /\ s \in PeFlagSignals => before.peSig
    /\ dilute => "high-entropy" \in before.sigs
    /\ WellFormedBuffer(Extended(before, s, dilute))
    /\ after' = Extended(before, s, dilute)
    /\ added' = s
    /\ UNCHANGED <<before, heurFrame>>

NextHeur == \E s \in Addable, dilute \in BOOLEAN : add_signal(s, dilute)

SpecHeur == InitHeur /\ [][NextHeur]_vars

\* the added bytes did not take the entropy of the buffer under the threshold
EntropyVerdictKept == "high-entropy" \in before.sigs => "high-entropy" \in after.sigs

\* C5 as stated: whatever signal is added to a buffer (a suspicious string, a
\* packer section name, a PE marker, the DOS-stub text, a script indicator),
\* the score of the extended buffer is >= the score of the original buffer
\* (stated here for additions that keep the signals already present).
C5_ScoreNeverLowered ==
    (added # "" /\ EntropyVerdictKept) => Score(after) >= Score(before)

\* C5 amended: adding a scoring signal (a suspicious string, a packer section
\* name, a script indicator, an embedded MZ past offset 512, a characteristics
\* flag, a PE signature, a leading MZ on a buffer not named .exe/.dll) never
\* lowers the score as long as the added bytes leave the entropy verdict as it
\* was; the DOS-stub text and a leading MZ on a .exe/.dll buffer are no such
\* signals.
C5_ScoringSignalsMonotone ==
    (/\ added # ""
     /\ added # "dos-stub"
     /\ added = "mz-prefix" => before.ext \notin ExeExts
     /\ EntropyVerdictKept)
    => Score(after) >= Score(before)

\* a suspicious string added to a buffer that already scores raises the score
C5_Witness ==
    /\ added \in StringSignals
    /\ Score(before) > 0
    /\ Score(after) > Score(before)


(***************************************************************************)
(* The scan specification: one ScanEngine, scan_directory calls on it, its *)
(* pool workers running _scan_file, and cancel / pause / resume called     *)
(* from other threads at any time.                                         *)
(***************************************************************************)
SCANNABLE_EXTENSIONS ==
    {".exe", ".dll", ".bat", ".cmd", ".ps1", ".vbs", ".js", ".jse",
     ".wsf", ".wsh", ".msi", ".scr", ".pif", ".com", ".hta",
     ".jar", ".py", ".rb", ".php", ".sh", ".reg", ".inf",
     ".zip", ".rar", ".7z", ".iso", ".img",
     ".doc", ".docx", ".xls", ".xlsx", ".ppt", ".pptx", ".pdf",
     ".lnk", ".url"}

\* ScanEngine.__init__(max_workers=4)
max_workers == 4

\* the files a scanned directory may hold, in the order os.walk lists them
PlainExe == Buffer(".exe", "ge64", "MZ", FALSE, FALSE, {})
DirFiles ==
    << File("clean.exe",  TRUE,  TRUE,  FALSE, "aaaa0001", {}, PlainExe),
       File("eicar.com",  TRUE,  TRUE,  FALSE, EICAR_SHA256, {"eicar"}, EicarBuffer(".com")),
       File("eicar.txt",  TRUE,  TRUE,  FALSE, EICAR_SHA256, {"eicar"}, EicarBuffer(".txt")),
       \* open() fails: permission denied, or the file vanished after enumeration
       File("locked.exe", FALSE, FALSE, FALSE, "bbbb0002", {"vssadmin"}, PlainExe) >>

Directories ==
    { d \in SubsetsUpTo(1..Len(DirFiles), MaxFiles) : d # {} }

\* _enumerate_files: the files with a scannable extension or none, in order
Scannable(f) == f.buf.ext \in SCANNABLE_EXTENSIONS \/ f.buf.ext = ""

Enumerated(d) ==
    LET idx == { i \in d : Scannable(DirFiles[i]) }
        nth[k \in 1..Cardinality(idx)] ==
            CHOOSE i \in idx : Cardinality({j \in idx : j < i}) = k - 1
    IN  [k \in 1..Cardinality(idx) |-> DirFiles[nth[k]]]

Progress(status, total, scanned_n, threats) ==
    [status |-> status, total_files |-> total, scanned_files |-> scanned_n,
     threats_found |-> threats]

\* on_threat_found: not passed, returns, raises, or calls get_results() /
\* get_threats() on the engine before it returns
CallbackSets == [on_threat_found : {"none", "returns", "raises", "reads_results"},
                 progress : {"none", "returns", "raises"}]

\* _notify_progress: does an exception of a progress callback leave the method?
notify_progress_raises(cbs) == FALSE

\* `on_threat_found(result)` at line 286: does the call raise?
on_threat_found_raises(cbs) == cbs.on_threat_found = "raises"

\* _results_lock is a threading.Lock (not reentrant). scan_directory holds it
\* from line 278 to the end of the with block at line 286, which is one step of
\* the model except while on_threat_found is running inside it.
results_lock_holder ==
    IF pc \in {"in_callback", "recorded", "counted"} THEN "scan_directory" ELSE "free"

\* get_results / get_threats: `with self._results_lock` is entered when the lock
\* is free; otherwise the caller waits for the holder to release it
get_results_returns == results_lock_holder = "free"

\* the scan is reported completed whatever the flag says
FinalStatus_AlwaysCompleted(flag) == "completed"

\* line 290: "cancelled" if self._cancel_flag.is_set() else "completed"
FinalStatus(flag) == IF flag THEN "cancelled" ELSE "completed"

\* has the loop of scan_directory left through `break` (cancel flag seen)?
CancelObserved == outcome.left = "break"

\* the callbacks invoked from now on are logged once the flag was observed
Logged(kinds) == IF CancelObserved THEN cb_log \cup kinds ELSE cb_log

ProgressKinds(kind) == IF callbacks.progress = "none" THEN {} ELSE {kind}

\* _notify_progress: every registered callback is called with self.progress
\* and reads it; `by` names the caller, p and rs are the progress and the
\* result list at the time of the call
Observed(cbs, by, p, rs) ==
    IF cbs.progress = "none" THEN seen
    ELSE [by |-> by, scanned_files |-> p.scanned_files, recorded |-> Len(rs)]

\* the file counter is left as it was
counted_NotAdvanced(p) == p

\* line 280: self.progress.scanned_files += 1
counted(p) == [p EXCEPT !.scanned_files = @ + 1]

\* a threat is counted twice
threat_counted_Twice(p, result) ==
    [p EXCEPT !.threats_found = IF is_threat(result) THEN @ + 2 ELSE @]

\* lines 283-284: threats_found += 1 for a threat
threat_counted(p, result) ==
    [p EXCEPT !.threats_found = IF is_threat(result) THEN @ + 1 ELSE @]

\* lines 280-284: the counters after one more result
aggregated(p, result) == threat_counted(counted(p), result)

scanFrame == <<detectVars, heurVars, quarVars, rtVars>>

\* scan_directory, lines 252-260
scan_start(d, cbs) ==
    /\ pc \in {"idle", "done", "raised"}
    /\ directory' = d
    /\ callbacks' = cbs
    /\ cancel_flag' = FALSE
    /\ pause_flag' = FALSE
    /\ results' = <<>>
    /\ progress' = Progress("counting", 0, 0, 0)
    /\ seen' = IF cbs.progress = "none" THEN NotSeen
               ELSE Observed(cbs, "counting", Progress("counting", 0, 0, 0), <<>>)
    /\ files_to_scan' = <<>>
    /\ futures' = <<>>
    /\ cur' = 0
    /\ cb_log' = {}
    /\ outcome' = [left |-> "none", final |-> NotReturned]
    /\ pc' = IF notify_progress_raises(cbs) /\ cbs.progress = "raises"
             THEN "raised" ELSE "counting"
    /\ UNCHANGED scanFrame

\* lines 263-266: enumeration stops early once the cancel flag is set
scan_enumerate ==
    /\ pc = "counting"
    /\ \E n \in 0..Len(Enumerated(directory)) :
          /\ n = Len(Enumerated(directory)) \/ cancel_flag
          /\ files_to_scan' = SubSeq(Enumerated(directory), 1, n)
          /\ progress' = [progress EXCEPT !.total_files = n, !.status = "scanning"]
    /\ seen' = Observed(callbacks, "scanning", progress, results)
    /\ pc' = "submit"
    /\ UNCHANGED <<directory, callbacks, cancel_flag, pause_flag, results, futures,
                   cur, cb_log, outcome, scanFrame>>

\* a future that is not done has no result
NoResult == Result("", "CLEAN", None, None, None, "")

\* line 270: every file is submitted to the pool
scan_submit ==
    /\ pc = "submit"
    /\ futures' = [i \in 1..Len(files_to_scan) |->
                     [state |-> "pending", yielded |-> FALSE, result |-> NoResult]]
    /\ pc' = "loop"
    /\ UNCHANGED <<directory, callbacks, cancel_flag, pause_flag, results, progress,
                   files_to_scan, cur, cb_log, outcome, seen, scanFrame>>

Running == { i \in 1..Len(futures) : futures[i].state = "waiting" }

\* a pool thread takes a submitted file: _scan_file lines 143-149
worker_start(i) ==
    /\ futures[i].state = "pending"
    /\ Cardinality(Running) < max_workers
    /\ futures' = [futures EXCEPT ![i] =
          IF cancel_flag
          THEN [@ EXCEPT !.state = "done", !.result = CancelledResult(files_to_scan[i])]
          ELSE [@ EXCEPT !.state = "waiting"]]
    /\ UNCHANGED <<directory, callbacks, cancel_flag, pause_flag, results, progress,
                   files_to_scan, cur, cb_log, outcome, pc, seen, scanFrame>>

\* _scan_file lines 151-211: leaves the pause loop, then classifies the file
worker_scan(i) ==
    /\ futures[i].state = "waiting"
    /\ ~pause_flag \/ cancel_flag
    /\ futures' = [futures EXCEPT ![i] =
          [@ EXCEPT !.state = "done",
                    !.result = Classify(files_to_scan[i], custom_hashes,
                                        custom_patterns, score_threshold).result]]
    /\ UNCHANGED <<directory, callbacks, cancel_flag, pause_flag, results, progress,
                   files_to_scan, cur, cb_log, outcome, pc, seen, scanFrame>>

\* lines 272-274: as_completed yields a finished future, the flag is checked
scan_next(i) ==
    /\ pc = "loop"
    /\ futures[i].state = "done" /\ ~futures[i].yielded
    /\ futures' = [futures EXCEPT ![i].yielded = TRUE]
    /\ IF cancel_flag
       THEN /\ pc' = "join"
            /\ outcome' = [outcome EXCEPT !.left = "break"]
            /\ cur' = 0
       ELSE /\ pc' = "aggregate"
            /\ cur' = i
            /\ UNCHANGED outcome
    /\ UNCHANGED <<directory, callbacks, cancel_flag, pause_flag, results, progress,
                   files_to_scan, cb_log, seen, scanFrame>>

\* as_completed is exhausted: the loop ends
scan_exhausted ==
    /\ pc = "loop"
    /\ \A i \in 1..Len(futures) : futures[i].yielded
    /\ pc' = "join"
    /\ outcome' = [outcome EXCEPT !.left = "exhausted"]
    /\ UNCHANGED <<directory, callbacks, cancel_flag, pause_flag, results, progress,
                   files_to_scan, futures, cur, cb_log, seen, scanFrame>>

\* lines 276-288: the result is recorded, the callbacks are invoked
scan_aggregate ==
    /\ pc = "aggregate"
    /\ LET result == futures[cur].result
           threat == is_threat(result)
           called == threat /\ callbacks.on_threat_found # "none"
           raises == called /\ on_threat_found_raises(callbacks)
       IN  /\ results' = Append(results, result)
           /\ progress' = aggregated(progress, result)
           /\ IF raises
              THEN /\ pc' = "join"
                   /\ outcome' = [outcome EXCEPT !.left = "exception"]
                   /\ cb_log' = Logged({"threat"})
                   /\ UNCHANGED seen
              ELSE IF called /\ callbacks.on_threat_found = "reads_results"
              THEN \* the callback is at `with self._results_lock` of get_results,
                   \* on the thread that holds the lock
                   /\ pc' = "in_callback"
                   /\ UNCHANGED outcome
                   /\ cb_log' = Logged({"threat"})
                   /\ UNCHANGED seen
              ELSE /\ pc' = "loop"
                   /\ UNCHANGED outcome
                   /\ seen' = Observed(callbacks, "result",
                                       aggregated(progress, result),
                                       Append(results, result))
                   /\ cb_log' = Logged((IF called THEN {"threat"} ELSE {})
                                         \cup ProgressKinds("result"))
    /\ cur' = 0
    /\ UNCHANGED <<directory, callbacks, cancel_flag, pause_flag, files_to_scan,
                   futures, scanFrame>>

\* the `with ThreadPoolExecutor` block is left: shutdown(wait=True) returns once
\* every submitted call has run; an exception then propagates to the caller
scan_join ==
    /\ pc = "join"
    /\ \A i \in 1..Len(futures) : futures[i].state = "done"
    /\ pc' = IF outcome.left = "exception" THEN "raised" ELSE "finish"
    /\ UNCHANGED <<directory, callbacks, cancel_flag, pause_flag, results, progress,
                   files_to_scan, futures, cur, cb_log, outcome, seen, scanFrame>>

\* lines 290-294
scan_finish ==
    /\ pc = "finish"
    /\ progress' = [progress EXCEPT !.status = FinalStatus(cancel_flag)]
    /\ seen' = Observed(callbacks, "final", progress, results)
    /\ cb_log' = Logged(ProgressKinds("final"))
    /\ outcome' = [outcome EXCEPT !.final = progress']
    /\ pc' = "done"
    /\ UNCHANGED <<directory, callbacks, cancel_flag, pause_flag, results,
                   files_to_scan, futures, cur, scanFrame>>

\* ScanEngine.cancel
engine_cancel ==
    /\ cancel_flag' = TRUE
    /\ UNCHANGED <<directory, callbacks, pause_flag, results, progress, files_to_scan,
                   futures, cur, cb_log, outcome, pc, seen, scanFrame>>

\* ScanEngine.pause
engine_pause ==
    /\ pause_flag' = TRUE
    /\ progress' = [progress EXCEPT !.status = "paused"]
    /\ cb_log' = Logged(ProgressKinds("pause"))
    /\ seen' = Observed(callbacks, "pause", progress, results)
    /\ UNCHANGED <<directory, callbacks, cancel_flag, results, files_to_scan,
                   futures, cur, outcome, pc, scanFrame>>

\* ScanEngine.resume
engine_resume ==
    /\ pause_flag' = FALSE
    /\ progress' = [progress EXCEPT !.status = "scanning"]
    /\ cb_log' = Logged(ProgressKinds("resume"))
    /\ seen' = Observed(callbacks, "resume", progress, results)
    /\ UNCHANGED <<directory, callbacks, cancel_flag, results, files_to_scan,
                   futures, cur, outcome, pc, scanFrame>>

NextScan ==
    \/ \E d \in Directories, cbs \in CallbackSets : scan_start(d, cbs)
    \/ scan_enumerate
    \/ scan_submit
    \/ \E i \in 1..Len(futures) : worker_start(i)
    \/ \E i \in 1..Len(futures) : worker_scan(i)
    \/ \E i \in 1..Len(futures) : scan_next(i)
    \/ scan_exhausted
    \/ scan_aggregate
    \/ scan_join
    \/ scan_finish
    \/ engine_cancel
    \/ engine_pause
    \/ engine_resume

SpecScan == Init /\ [][NextScan]_vars


(***************************************************************************)
(* The progress specification: the same scan with lines 276-288 taken one  *)
(* statement at a time, so that cancel(), pause() and resume(), which take *)
(* no lock, run between any two of them.                                   *)
(***************************************************************************)
\* line 279, inside `with self._results_lock`
scan_record ==
    /\ pc = "aggregate"
    /\ results' = Append(results, futures[cur].result)
    /\ pc' = "recorded"
    /\ UNCHANGED <<directory, callbacks, cancel_flag, pause_flag, progress,
                   files_to_scan, futures, cur, cb_log, outcome, seen, scanFrame>>

\* lines 280-281
scan_count ==
    /\ pc = "recorded"
    /\ progress' = counted(progress)
    /\ pc' = "counted"
    /\ UNCHANGED <<directory, callbacks, cancel_flag, pause_flag, results,
                   files_to_scan, futures, cur, cb_log, outcome, seen, scanFrame>>

\* lines 283-286: the threat is counted and on_threat_found is called, still
\* inside the lock; the with block is left when the callback returns or raises
scan_threat ==
    /\ pc = "counted"
    /\ LET result == futures[cur].result
           called == is_threat(result) /\ callbacks.on_threat_found # "none"
       IN  /\ progress' = threat_counted(progress, result)
           /\ cb_log' = Logged(IF called THEN {"threat"} ELSE {})
           /\ IF called /\ on_threat_found_raises(callbacks)
              THEN /\ pc' = "join"
                   /\ outcome' = [outcome EXCEPT !.left = "exception"]
                   /\ cur' = 0
              ELSE IF called /\ callbacks.on_threat_found = "reads_results"
              THEN /\ pc' = "in_callback"
                   /\ cur' = 0
                   /\ UNCHANGED outcome
              ELSE /\ pc' = "notify"
                   /\ UNCHANGED <<cur, outcome>>
    /\ UNCHANGED <<directory, callbacks, cancel_flag, pause_flag, results,
                   files_to_scan, futures, seen, scanFrame>>

\* line 288: self._notify_progress(), after the lock was released
scan_notify ==
    /\ pc = "notify"
    /\ seen' = Observed(callbacks, "result", progress, results)
    /\ cb_log' = Logged(ProgressKinds("result"))
    /\ pc' = "loop"
    /\ cur' = 0
    /\ UNCHANGED <<directory, callbacks, cancel_flag, pause_flag, results, progress,
                   files_to_scan, futures, outcome, scanFrame>>

NextProgress ==
    \/ \E d \in Directories, cbs \in CallbackSets : scan_start(d, cbs)
    \/ scan_enumerate
    \/ scan_submit
    \/ \E i \in 1..Len(futures) : worker_start(i)
    \/ \E i \in 1..Len(futures) : worker_scan(i)
    \/ \E i \in 1..Len(futures) : scan_next(i)
    \/ scan_exhausted
    \/ scan_record
    \/ scan_count
    \/ scan_threat
    \/ scan_notify
    \/ scan_join
    \/ scan_finish
    \/ engine_cancel
    \/ engine_pause
    \/ engine_resume

SpecProgress == Init /\ [][NextProgress]_vars

\* a scan is past its enumeration and has not returned or raised
ScanRunning == pc \in {"submit", "loop", "aggregate", "recorded", "counted", "notify",
                       "in_callback", "join", "finish"}

\* C32: from the moment the status becomes scanning until the scan ends,
\* 0 <= threats_found <= scanned_files <= total_files holds in every state,
\* total_files does not change, and scanned_files and threats_found never
\* decrease.
C32_CountersOrderedAndMonotone ==
    [][ /\ (ScanRunning \/ pc \in {"done", "raised"}) =>
             /\ 0 <= progress.threats_found
             /\ progress.threats_found <= progress.scanned_files
             /\ progress.scanned_files <= progress.total_files
        /\ ScanRunning =>
             /\ progress'.total_files = progress.total_files
             /\ progress'.scanned_files >= progress.scanned_files
             /\ progress'.threats_found >= progress.threats_found
             /\ progress'.threats_found <= progress'.scanned_files
             /\ progress'.scanned_files <= progress'.total_files ]_vars

\* between the two counter updates of a threat, while the scan is paused
C32_Witness ==
    /\ pc = "counted"
    /\ pause_flag
    /\ is_threat(futures[cur].result)
    /\ progress.scanned_files = 2
    /\ progress.threats_found = 0
    /\ progress.total_files = 2

\* C31: every progress callback invoked for an aggregated result reads a
\* scanned_files equal to the number of results recorded so far, and within one
\* scan the scanned_files values read by successive progress callbacks never
\* decrease, whichever of scan_directory, pause() and resume() invokes them.
C31_CallbackSeesRecordedCount ==
    [][ /\ seen'.by = "result" => seen'.scanned_files = seen'.recorded
        /\ (seen.by # "none" /\ seen'.by \notin {"none", "counting"}) =>
               seen'.scanned_files >= seen.scanned_files ]_vars

\* the progress callback of the second result, invoked while the engine is
\* paused by a pause() that ran during the aggregation
C31_Witness ==
    /\ seen.by = "result"
    /\ seen.recorded = 2
    /\ pause_flag
    /\ progress.status = "paused"
    /\ pc = "loop"


(***************************************************************************)
(* Claims about the scan                                                   *)
(***************************************************************************)
\* the scan_directory call has returned and cancel() was not called
ReturnedUncancelled == pc = "done" /\ ~cancel_flag

\* the scanned directory holds exactly one file, and its content is the EICAR string
OneEicarFile ==
    /\ Cardinality(directory) = 1
    /\ \A i \in directory :
          /\ DirFiles[i].digest = EICAR_SHA256
          /\ DirFiles[i].hashOK /\ DirFiles[i].headOK

EicarReported ==
    /\ Len(results) = 1
    /\ results[1].threat_level = "LOW"
    /\ results[1].detection_method \in {"pattern", "signature"}
    /\ outcome.final.threats_found = 1
    /\ outcome.final.status = "completed"

\* C6 as stated: the scan of a directory whose only file holds the EICAR
\* string returns exactly one result, LOW, by pattern or signature, and the
\* final progress has threats_found = 1 and status completed.
C6_OneEicarFileReported ==
    (ReturnedUncancelled /\ OneEicarFile) => EicarReported

\* C6, amended: the same, for a file whose extension is in the scannable set
\* or that has no extension (another file is not enumerated at all).
C6_ScannableEicarFileReported ==
    (/\ ReturnedUncancelled
     /\ OneEicarFile
     /\ \A i \in directory : Scannable(DirFiles[i]))
    => EicarReported

\* the scan of a directory that holds only eicar.com has returned its result
C6_Witness ==
    /\ ReturnedUncancelled
    /\ OneEicarFile
    /\ \A i \in directory : DirFiles[i].name = "eicar.com"
    /\ EicarReported

\* the step that returns from a scan during which cancel() was called
CancelledReturn == pc = "finish" /\ pc' = "done" /\ cancel_flag

\* C7 as stated: a scan cancelled after its files were dispatched ends with
\* final status cancelled and scanned_files <= M, and no progress or threat
\* callback was invoked after the loop observed the cancel flag (stated for
\* the scans that had recorded a result before they were cancelled).
C7_NoCallbackAfterCancel ==
    [][(CancelledReturn /\ results # <<>>) =>
         /\ outcome'.final.status = "cancelled"
         /\ outcome'.final.scanned_files <= Len(files_to_scan)
         /\ cb_log' \cap {"result", "threat", "final"} = {}]_vars

\* C7, amended: a scan cancelled after its files were dispatched ends with
\* final status cancelled and scanned_files <= M; after the loop observed the
\* cancel flag the scan invokes no threat callback and no per-result progress
\* callback: the one notification that follows is the final one, which
\* carries the status cancelled.
C7_NoResultCallbackAfterCancel ==
    [][CancelledReturn =>
         /\ outcome'.final.status = "cancelled"
         /\ outcome'.final.scanned_files <= Len(files_to_scan)
         /\ cb_log' \cap {"result", "threat"} = {}]_vars

\* a scan with a progress callback was cancelled after one of its two files
\* was aggregated, left its loop at the break and returned
C7_Witness ==
    /\ pc = "done"
    /\ outcome.left = "break"
    /\ outcome.final.status = "cancelled"
    /\ callbacks.progress # "none"
    /\ Len(results) = 1
    /\ Len(files_to_scan) = 2

StatusMoves ==
    { <<"idle", "counting">>, <<"counting", "scanning">>,
      <<"scanning", "completed">>, <<"scanning", "cancelled">>,
      <<"scanning", "paused">>, <<"paused", "scanning">> }

NewScanStarts == pc \in {"idle", "done", "raised"} /\ pc' = "counting"

\* C8: once a scan was started, progress.status only moves along
\* idle -> counting -> scanning -> completed | cancelled, paused is entered
\* only from scanning and left only to scanning, and a completed or cancelled
\* status stays until a new scan starts.
C8_StatusStateMachine ==
    [][(pc # "idle" /\ progress'.status # progress.status)
         => (<<progress.status, progress'.status>> \in StatusMoves \/ NewScanStarts)]_vars

\* C9: a scan call never fails: it returns, with final status completed or
\* cancelled, whatever the callbacks do.
C9_ScanNeverFails ==
    /\ pc # "raised"
    /\ pc = "done" => outcome.final.status \in {"completed", "cancelled"}

ErrorDescriptions == {"Error scanning"}

\* C10: the result of a file that could not be read is CLEAN and carries an
\* error description.
C10_IoErrorAnnotated ==
    \A i \in 1..Len(futures) :
       (/\ futures[i].state = "done"
        /\ ~files_to_scan[i].hashOK
        /\ futures[i].result # CancelledResult(files_to_scan[i]))
       => /\ futures[i].result.threat_level = "CLEAN"
          /\ futures[i].result.threat_description \in ErrorDescriptions


(***************************************************************************)
(* The quarantine specification: one QuarantineManager over a file system. *)
(* fs and blobs are sets of [path, data] with one entry per path; items is *)
(* self._items and journal the items last written to quarantine.json.      *)
(***************************************************************************)
\* b'SENTRY_QUARANTINE_KEY_2024'
key == <<83, 69, 78, 84, 82, 89, 95, 81, 85, 65, 82, 65, 78, 84, 73, 78, 69,
         95, 75, 69, 89, 95, 50, 48, 50, 52>>

\* b'SENTRY_Q1'
MAGIC == <<83, 69, 78, 84, 82, 89, 95, 81, 49>>

\* byte ^ byte
RECURSIVE xor(_, _)
xor(a, b) ==
    IF a = 0 THEN b
    ELSE IF b = 0 THEN a
    ELSE (((a % 2) + (b % 2)) % 2) + (2 * xor(a \div 2, b \div 2))

\* byte ^ key[i % len(key)] over the data (i counts from 0 in the source)
XorWithKey(data) ==
    [i \in 1..Len(data) |-> xor(data[i], key[((i - 1) % Len(key)) + 1])]

\* _encrypt_file: what is written to the blob
encrypt(data) == MAGIC \o XorWithKey(data)

\* the header is not compared with the magic
decrypt_NoMagicCheck(blob) ==
    [ok |-> TRUE, data |-> XorWithKey(SubSeq(blob, Len(MAGIC) + 1, Len(blob)))]

\* _decrypt_file: False on a wrong header, else the bytes written to dest
decrypt(blob) ==
    IF Len(blob) >= Len(MAGIC) /\ SubSeq(blob, 1, Len(MAGIC)) = MAGIC
    THEN [ok |-> TRUE, data |-> XorWithKey(SubSeq(blob, Len(MAGIC) + 1, Len(blob)))]
    ELSE [ok |-> FALSE, data |-> <<>>]

\* _calculate_hash: SHA-256 taken to be collision free
sha256(data) == <<"sha256", data>>

\* paths: os.path.dirname(p) is p.dir, "" for a bare file name
QPath(dir, name) == [dir |-> dir, name |-> name]
dirname(p) == p.dir

\* os.makedirs(d, exist_ok=True) raises FileNotFoundError for the empty path
makedirs_raises(d) == d = ""

exists(files, p) == \E e \in files : e.path = p
read(files, p) == (CHOOSE e \in files : e.path = p).data
write(files, p, data) == {e \in files : e.path # p} \cup {[path |-> p, data |-> data]}
\* os.remove leaves the file where it is
remove_Nothing(files, p) == files

remove(files, p) == {e \in files : e.path # p}

\* _generate_id: sha256(path + now)[:16], distinct for distinct (path, time)
generate_id(file_path, now) == [path |-> file_path, at |-> now]

\* quarantine_dir/<YYYY-MM>/<id>.quarantine
quarantine_path(item_id) == QPath("Quarantine", item_id)

has_item(tbl, item_id) == \E it \in tbl : it.id = item_id
the_item(tbl, item_id) == CHOOSE it \in tbl : it.id = item_id

ByteValues == {200}
RECURSIVE SeqsUpTo(_, _)
SeqsUpTo(S, n) ==
    IF n = 0 THEN {<<>>}
    ELSE SeqsUpTo(S, n - 1) \cup [1..n -> S]
Contents == SeqsUpTo(ByteValues, MaxContentLen)
QPaths == {QPath("", "eicar.com"), QPath("/home/user", "eicar.com")}
ItemIds == {generate_id(q, t) : q \in QPaths, t \in 1..MaxQuarantines}
\* Optional arguments: the empty sequence is None; the callers of
\* quarantine_file (GUI, realtime monitor) always pass the scan result
ScanResultArgs ==
    {<<Result("eicar.com", "LOW", "EICAR-Test-File", "signature description",
                    EICAR_SHA256, "signature")>>}
RestorePathArgs == {<<>>} \cup {<<q>> : q \in QPaths}

otherFrame == <<detectVars, heurVars, scanVars, rtVars>>

\* what the manager calls taken as one step leave alone
quarFrame == <<q_call, otherFrame>>

\* what the disk does to one quarantine_file call
QuarantineIo == {"ok", "read_fails", "write_fails", "remove_fails", "save_fails"}

\* a fault of the disk is counted
Faulty(is_fault) ==
    /\ is_fault => faults < MaxFaults
    /\ faults' = IF is_fault THEN faults + 1 ELSE faults

\* the environment writes a file
create_file(path, data) ==
    /\ ~exists(fs, path)
    /\ fs' = write(fs, path, data)
    /\ last_op' = [op |-> "create_file"]
    /\ UNCHANGED <<blobs, items, journal, clock, faults, quarFrame>>

\* the environment removes a blob from the quarantine directory, or damages
\* its first byte
tamper_blob(path, how) ==
    /\ exists(blobs, path)
    /\ Faulty(TRUE)
    /\ blobs' = IF how = "delete" THEN remove(blobs, path)
                ELSE write(blobs, path,
                           IF read(blobs, path) = <<>> THEN <<0>>
                           ELSE [read(blobs, path) EXCEPT ![1] = xor(@, 255)])
    /\ last_op' = [op |-> "tamper_blob"]
    /\ UNCHANGED <<fs, items, journal, clock, quarFrame>>

\* the record stays in the map
without_Keeps(tbl, item_id) == tbl

\* the records of `tbl` without the one of item_id: del self._items[item_id]
without(tbl, item_id) == {it \in tbl : it.id # item_id}

\* _save_database: the items are written to quarantine.json; an error of the
\* write is swallowed and the journal keeps its old content
save_database(new_items, saved) == journal' = IF saved THEN new_items ELSE journal

\* the original is removed whatever _encrypt_file returned
encrypt_file_Ignored(io) == TRUE

\* `if not self._encrypt_file(...)`: did _encrypt_file return True?
encrypt_file(io) == io \notin {"read_fails", "write_fails"}

\* QuarantineManager.__init__ / _load_database: a manager is constructed over
\* the quarantine directory, its items are the records of the journal
load_database ==
    /\ items' = journal
    /\ last_op' = [op |-> "load_database"]
    /\ UNCHANGED <<fs, blobs, journal, clock, faults, quarFrame>>

\* QuarantineManager.quarantine_file
\* QuarantinedItem(...) as quarantine_file builds it, lines 190-201
QuarantinedItem(item_id, file_path, data, scan_result) ==
    [id |-> item_id,
     original_path |-> file_path,
     quarantine_path |-> quarantine_path(item_id),
     file_hash |-> sha256(data),
     file_size |-> Len(data),
     threat_name |-> IF scan_result # <<>> THEN scan_result[1].threat_name
                     ELSE "Unknown Threat",
     threat_level |-> IF scan_result # <<>> THEN scan_result[1].threat_level
                      ELSE "UNKNOWN",
     detection_method |-> IF scan_result # <<>> THEN scan_result[1].detection_method
                          ELSE "manual"]

quarantine_file(file_path, scan_result, io) ==
    /\ clock < MaxQuarantines
    /\ clock' = clock + 1
    /\ IF ~exists(fs, file_path)
       THEN /\ io = "ok"
            /\ last_op' = [op |-> "quarantine_file", ret |-> <<>>, io |-> io,
                           path |-> file_path]
            /\ UNCHANGED <<fs, blobs, items, journal, faults>>
       ELSE LET item_id == generate_id(file_path, clock')
                data == read(fs, file_path)
                item == QuarantinedItem(item_id, file_path, data, scan_result)
            IN  /\ Faulty(io # "ok")
                /\ IF ~encrypt_file(io)
                   THEN \* a failed write leaves what was written of the blob
                        /\ blobs' = IF io = "write_fails"
                                    THEN write(blobs, quarantine_path(item_id), <<>>)
                                    ELSE blobs
                        /\ last_op' = [op |-> "quarantine_file", ret |-> <<>>,
                                       io |-> io, path |-> file_path]
                        /\ UNCHANGED <<fs, items, journal>>
                   ELSE IF io = "remove_fails"
                   THEN \* os.remove raises (lines 183-188): the blob is written,
                        \* the except branch of line 209 returns None
                        /\ blobs' = write(blobs, quarantine_path(item_id), encrypt(data))
                        /\ last_op' = [op |-> "quarantine_file", ret |-> <<>>,
                                       io |-> io, path |-> file_path]
                        /\ UNCHANGED <<fs, items, journal>>
                   ELSE /\ blobs' = IF io = "read_fails" THEN blobs
                                    ELSE write(blobs, quarantine_path(item_id),
                                               IF io = "write_fails" THEN <<>>
                                               ELSE encrypt(data))
                        /\ fs' = remove(fs, file_path)
                        /\ items' = without(items, item_id) \cup {item}
                        /\ save_database(items', io # "save_fails")
                        /\ last_op' = [op |-> "quarantine_file", ret |-> <<item_id>>,
                                       io |-> io, path |-> file_path]
    /\ UNCHANGED quarFrame

\* QuarantineManager.restore_file
restore_file(item_id, restore_path, saved) ==
    /\ IF ~has_item(items, item_id)
       THEN /\ saved /\ restore_path = <<>>
            /\ last_op' = [op |-> "restore_file", ret |-> FALSE, item |-> <<>>,
                           restore_path |-> restore_path, id |-> item_id,
                           saved |-> saved]
            /\ UNCHANGED <<fs, blobs, items, journal, faults>>
       ELSE LET item == the_item(items, item_id)
                dest_path == IF restore_path # <<>> THEN restore_path[1]
                             ELSE item.original_path
            IN  IF ~exists(blobs, item.quarantine_path)
                THEN \* the orphaned entry is removed
                     /\ Faulty(~saved)
                     /\ items' = without(items, item_id)
                     /\ save_database(items', saved)
                     /\ last_op' = [op |-> "restore_file", ret |-> FALSE, item |-> <<item>>,
                                    restore_path |-> restore_path, id |-> item_id,
                                    saved |-> saved]
                     /\ UNCHANGED <<fs, blobs>>
                ELSE IF makedirs_raises(dirname(dest_path))
                          \/ ~decrypt(read(blobs, item.quarantine_path)).ok
                THEN /\ saved
                     /\ last_op' = [op |-> "restore_file", ret |-> FALSE,
                                    item |-> <<item>>, restore_path |-> restore_path,
                                    id |-> item_id, saved |-> saved]
                     /\ UNCHANGED <<fs, blobs, items, journal, faults>>
                ELSE /\ Faulty(~saved)
                     /\ fs' = write(fs, dest_path,
                                    decrypt(read(blobs, item.quarantine_path)).data)
                     /\ blobs' = remove(blobs, item.quarantine_path)
                     /\ items' = without(items, item_id)
                     /\ save_database(items', saved)
                     /\ last_op' = [op |-> "restore_file", ret |-> TRUE,
                                    item |-> <<item>>, restore_path |-> restore_path,
                                    id |-> item_id, saved |-> saved]
    /\ UNCHANGED <<clock, quarFrame>>

\* the lookup raises KeyError for every id that is not in the map
not_in_items_Never(tbl, item_id) == FALSE

\* `if item_id not in self._items: return False`
not_in_items(tbl, item_id) == ~has_item(tbl, item_id)

\* QuarantineManager.delete_permanently
delete_permanently(item_id, saved) ==
    /\ IF not_in_items(items, item_id)
       THEN /\ saved
            /\ last_op' = [op |-> "delete_permanently", ret |-> <<FALSE>>,
                           id |-> item_id, saved |-> saved]
            /\ UNCHANGED <<blobs, items, journal, faults>>
       ELSE IF ~has_item(items, item_id)
       THEN \* self._items[item_id] raises KeyError, outside the try block
            /\ saved
            /\ last_op' = [op |-> "delete_permanently", ret |-> <<>>,
                           id |-> item_id, saved |-> saved]
            /\ UNCHANGED <<blobs, items, journal, faults>>
       ELSE /\ Faulty(~saved)
            /\ blobs' = remove(blobs, the_item(items, item_id).quarantine_path)
            /\ items' = without(items, item_id)
            /\ save_database(items', saved)
            /\ last_op' = [op |-> "delete_permanently", ret |-> <<TRUE>>,
                           id |-> item_id, saved |-> saved]
    /\ UNCHANGED <<fs, clock, quarFrame>>

\* the manager over a disk that does not fail
NextQuarantine ==
    \/ \E q \in QPaths, c \in Contents : create_file(q, c)
    \/ \E q \in QPaths, sr \in ScanResultArgs : quarantine_file(q, sr, "ok")
    \/ \E id \in ItemIds, rp \in RestorePathArgs : restore_file(id, rp, TRUE)
    \/ \E id \in ItemIds : delete_permanently(id, TRUE)

SpecQuarantine == Init /\ [][NextQuarantine]_vars

\* the manager of one path over a disk that fails: reads and writes of the
\* blob, writes of the journal, blobs removed or damaged behind its back, and
\* managers constructed anew over the directory
FaultPaths == {QPath("/home/user", "eicar.com")}
FaultContents == {<<200>>}
FaultIds == {generate_id(q, t) : q \in FaultPaths, t \in 1..MaxQuarantines}
FaultRestoreArgs == {<<>>} \cup {<<q>> : q \in FaultPaths}

NextQuarantineFaults ==
    \/ \E q \in FaultPaths, c \in FaultContents : create_file(q, c)
    \/ \E e \in blobs, how \in {"delete", "damage"} : tamper_blob(e.path, how)
    \/ load_database
    \/ \E q \in FaultPaths, sr \in ScanResultArgs, io \in QuarantineIo :
          quarantine_file(q, sr, io)
    \/ \E id \in FaultIds, rp \in FaultRestoreArgs, saved \in BOOLEAN :
          restore_file(id, rp, saved)
    \/ \E id \in FaultIds, saved \in BOOLEAN : delete_permanently(id, saved)

SpecQuarantineFaults == Init /\ [][NextQuarantineFaults]_vars

\* one manager over a disk that fails, and nobody else touching the
\* quarantine directory
NextQuarantineCalls ==
    \/ \E q \in FaultPaths, c \in FaultContents : create_file(q, c)
    \/ \E q \in FaultPaths, sr \in ScanResultArgs, io \in QuarantineIo :
          quarantine_file(q, sr, io)
    \/ \E id \in FaultIds, rp \in FaultRestoreArgs, saved \in BOOLEAN :
          restore_file(id, rp, saved)
    \/ \E id \in FaultIds, saved \in BOOLEAN : delete_permanently(id, saved)

SpecQuarantineCalls == Init /\ [][NextQuarantineCalls]_vars

\* C1: restore_file(id) with no override destination, for the item of a
\* successful quarantine_file(p) of content c, returns true, leaves at p a
\* file with content c, removes the encrypted blob and the item.
C1_RoundTrip ==
    (/\ last_op.op = "restore_file"
     /\ last_op.restore_path = <<>>
     /\ last_op.item # <<>>)
    => LET item == last_op.item[1]
       IN  /\ last_op.ret = TRUE
           /\ exists(fs, item.original_path)
           /\ sha256(read(fs, item.original_path)) = item.file_hash
           /\ ~exists(blobs, item.quarantine_path)
           /\ ~has_item(items, item.id)

(***************************************************************************)
(* Claims about the manager over a failing disk                            *)
(***************************************************************************)
\* C13: when _encrypt_file fails, quarantine_file returns None, the original
\* file stays in place with its content, and no record is added to the
\* journal (nor to the map).
C13_EncryptFailureKeepsOriginal ==
    [][(clock' = clock + 1 /\ last_op'.io \in {"read_fails", "write_fails"})
         => /\ last_op'.ret = <<>>
            /\ fs' = fs
            /\ journal' = journal
            /\ items' = items]_vars

\* a quarantine_file call whose blob write failed, on a manager that holds a
\* record already: the file is still there
C13_Witness ==
    /\ last_op.op = "quarantine_file"
    /\ last_op.io = "write_fails"
    /\ last_op.ret = <<>>
    /\ exists(fs, last_op.path)
    /\ items # {}

ReportsSuccess ==
    \/ last_op.op = "quarantine_file" /\ last_op.ret # <<>>
    \/ last_op.op = "restore_file" /\ last_op.ret = TRUE
    \/ last_op.op = "delete_permanently" /\ last_op.ret = <<TRUE>>

\* C14: when quarantine_file, restore_file or delete_permanently has reported
\* success, the journal on disk holds exactly the items of the map.
C14_SuccessMeansJournalWritten == ReportsSuccess => journal = items

\* C15: after a manager was loaded from the journal, every item's
\* quarantine_path refers to an existing blob, in the map and in the journal.
C15_LoadDropsOrphans ==
    last_op.op = "load_database"
    => \A it \in items \cup journal : exists(blobs, it.quarantine_path)

\* the step is a restore_file call for an item of the map whose blob is missing
RestoreOfOrphan ==
    /\ last_op'.op = "restore_file"
    /\ has_item(items, last_op'.id)
    /\ ~exists(blobs, the_item(items, last_op'.id).quarantine_path)

\* a restore_file or delete_permanently call for an id that is not in the
\* map returns false
UnknownIdRefused ==
    /\ (last_op'.op = "restore_file" /\ ~has_item(items, last_op'.id))
          => last_op'.ret = FALSE
    /\ (last_op'.op = "delete_permanently" /\ ~has_item(items, last_op'.id))
          => last_op'.ret = <<FALSE>>

HasMagic(blob) == Len(blob) >= Len(MAGIC) /\ SubSeq(blob, 1, Len(MAGIC)) = MAGIC

\* C17: restore_file on an item whose blob does not start with the magic
\* returns false, writes no file, and leaves the blob, the record and the
\* journal as they were.
C17_BadMagicRefused ==
    [][(/\ last_op'.op = "restore_file"
        /\ has_item(items, last_op'.id)
        /\ exists(blobs, the_item(items, last_op'.id).quarantine_path)
        /\ ~HasMagic(read(blobs, the_item(items, last_op'.id).quarantine_path)))
         => /\ last_op'.ret = FALSE
            /\ fs' = fs
            /\ blobs' = blobs
            /\ items' = items
            /\ journal' = journal]_vars

\* restore_file has refused the damaged blob of an item that is still there
C17_Witness ==
    /\ last_op.op = "restore_file"
    /\ last_op.ret = FALSE
    /\ has_item(items, last_op.id)
    /\ has_item(journal, last_op.id)
    /\ exists(blobs, quarantine_path(last_op.id))
    /\ ~HasMagic(read(blobs, quarantine_path(last_op.id)))

\* C18: delete_permanently for an id that is not (or no longer) in the map
\* returns false, raises nothing, and changes neither the journal nor a blob.
C18_DeleteUnknownRefused ==
    [][(last_op'.op = "delete_permanently" /\ ~has_item(items, last_op'.id))
         => /\ last_op'.ret = <<FALSE>>
            /\ journal' = journal
            /\ blobs' = blobs
            /\ items' = items]_vars

\* delete_permanently has refused an id issued earlier, with another record
\* and its blob in place
C18_Witness ==
    /\ last_op.op = "delete_permanently"
    /\ last_op.ret = <<FALSE>>
    /\ last_op.id.at <= clock
    /\ ~has_item(items, last_op.id)
    /\ journal # {}
    /\ blobs # {}

(***************************************************************************)
(* RealtimeProtection (protection/realtime.py): the watcher hands file     *)
(* events to _queue_file, the consumer threads run _scan_worker, and the   *)
(* controlling thread calls start, stop, pause, resume and                 *)
(* set_auto_quarantine. The monitor scans with the engine it was given     *)
(* and isolates through a QuarantineManager of its own.                    *)
(***************************************************************************)
MaxStarts == 2
MaxFileEvents == 2

\* `if len(self._recent_files) > 1000`
RecentCap == 1000

HIGH_RISK_EXTENSIONS ==
    {".exe", ".dll", ".bat", ".cmd", ".ps1", ".vbs", ".js",
     ".msi", ".scr", ".pif", ".com", ".hta", ".jar"}

\* b"vssadmin delete shadows", which (?i)vssadmin.*delete\s*shadows matches
ShadowDelete ==
    <<118, 115, 115, 97, 100, 109, 105, 110, 32, 100, 101, 108, 101, 116, 101,
      32, 115, 104, 97, 100, 111, 119, 115>>
\* b"hi"
HarmlessText == <<104, 105>>

\* the byte string `sub` occurs in `data`
Contains(data, sub) ==
    \E i \in 1..(Len(data) - Len(sub) + 1) : SubSeq(data, i, i + Len(sub) - 1) = sub

\* the watched directory and the files that appear in it
RtDir == "/home/user"
RtPaths == {QPath(RtDir, "drop.bat"), QPath(RtDir, "notes.txt")}
\* what is written: the command line, or into drop.bat a harmless text
RtFiles == {[path |-> QPath(RtDir, "drop.bat"),  data |-> ShadowDelete],
            [path |-> QPath(RtDir, "drop.bat"),  data |-> HarmlessText],
            [path |-> QPath(RtDir, "notes.txt"), data |-> ShadowDelete]}
ExistingDirs == {RtDir}
RtPathArgs == {{RtDir}, {RtDir, "/missing"}}
EventTypes == {"created"}
RtIo == {"ok", "write_fails"}

\* os.path.splitext(file_path)[1].lower()
splitext(p) ==
    CASE p.name = "drop.bat"  -> ".bat"
      [] p.name = "notes.txt" -> ".txt"
      [] p.name = "eicar.com" -> ".com"
      [] OTHER -> ""

\* the file at path p with content `data`, as the detection pipeline sees it:
\* readable, with the digest of its content, the rule patterns that occur
\* in it and its header buffer
FileOnDisk(p, data) ==
    File(p, TRUE, TRUE, FALSE,
         IF data = <<>> THEN EMPTY_SHA256
         ELSE IF Contains(data, ShadowDelete) THEN "aaaa0001" ELSE "bbbb0002",
         IF Contains(data, ShadowDelete) THEN {"vssadmin"} ELSE {},
         Buffer(splitext(p),
                IF Len(data) = 0 THEN "zero"
                ELSE IF Len(data) <= 2 THEN "le2"
                ELSE IF Len(data) < 64 THEN "lt64" ELSE "ge64",
                "other", FALSE, FALSE, {}))

\* file_path="" of the protection_started / protection_stopped events
NoPath == QPath("", "")

ProtectionEvent(event_type, file_path, action_taken, threat_info) ==
    [event_type |-> event_type, file_path |-> file_path,
     action_taken |-> action_taken, threat_info |-> threat_info]

\* a consumer thread at the top of its loop
Idle(t) == [id |-> t, pc |-> "idle", item |-> <<>>]

rtFrame == <<watchdog_available, event_callbacks, threat_callbacks,
             detectVars, heurVars, scanVars, q_call>>

\* _notify_event / _notify_threat: the callbacks that a broadcast over the list
\* `cbs` calls, by index. In the first reading an exception of a callback ends
\* the loop.
invoked_UntilRaise(cbs) ==
    {i \in 1..Len(cbs) : \A j \in 1..(i - 1) : cbs[j] # "raises"}

\* each call sits in its own try/except Exception: every callback is called
invoked(cbs) == 1..Len(cbs)

\* the status start() leaves behind when it fails
start_failed_Disabled == "DISABLED"

start_failed == "ERROR"

\* the environment writes a file into the watched directory
file_appears(path, data) ==
    /\ ~exists(fs, path)
    /\ fs' = write(fs, path, data)
    /\ rt_last' = [op |-> "other"]
    /\ UNCHANGED <<rt_status, observer, scan_thread, watchers, consumers, stop_event,
                   scan_queue, recent_files, events, watched_paths, auto_quarantine,
                   notified, starts, arrivals>>
    /\ UNCHANGED <<blobs, items, journal, clock, last_op, faults, rtFrame>>

\* `if self.status == ProtectionStatus.DISABLED: return`
already_stopped_Never(st) == FALSE

already_stopped(st) == st = "DISABLED"

\* RealtimeProtection.start; `raises`: a statement of the try block raises
\* (Observer() is taken, the first one that can)
start(paths, raises) ==
    /\ IF ~watchdog_available
       THEN /\ ~raises
            /\ starts < MaxStarts
            /\ starts' = starts + 1
            /\ rt_status' = start_failed
            /\ rt_last' = [op |-> "start", ret |-> FALSE, why |-> "unavailable"]
            /\ UNCHANGED <<observer, scan_thread, watchers, consumers,
                           stop_event, events, watched_paths>>
       ELSE IF rt_status = "ENABLED"
       THEN /\ ~raises
            /\ rt_last' = [op |-> "start", ret |-> TRUE, why |-> "enabled"]
            /\ UNCHANGED <<rt_status, observer, scan_thread, watchers, consumers,
                           stop_event, events, watched_paths, starts>>
       ELSE /\ starts < MaxStarts
            /\ starts' = starts + 1
            /\ stop_event' = FALSE
            /\ IF raises
               THEN /\ rt_status' = start_failed
                    /\ rt_last' = [op |-> "start", ret |-> FALSE, why |-> "raised"]
                    /\ UNCHANGED <<observer, scan_thread, watchers, consumers,
                                   events, watched_paths>>
               ELSE /\ observer' = <<starts'>>
                    /\ watchers' = watchers \cup {starts'}
                    /\ watched_paths' = watched_paths \cup (paths \cap ExistingDirs)
                    /\ scan_thread' = <<starts'>>
                    /\ consumers' = consumers \cup {Idle(starts')}
                    /\ rt_status' = "ENABLED"
                    /\ events' = Append(events,
                                        ProtectionEvent("protection_started", NoPath,
                                                        "Monitoring locations", <<>>))
                    /\ rt_last' = [op |-> "start", ret |-> TRUE, why |-> "started"]
    /\ UNCHANGED <<scan_queue, recent_files, auto_quarantine, notified, arrivals>>
    /\ UNCHANGED <<quarVars, rtFrame>>

\* RealtimeProtection.stop. The watcher stops when told to. The consumer
\* that is joined and waits in the queue pop has left its loop by the time
\* join returns; one that holds an entry may be past line 165 and busy with
\* the file, and then join(timeout=5) may return before it has.
stop ==
    /\ IF already_stopped(rt_status)
       THEN /\ rt_last' = [op |-> "stop", noop |-> TRUE]
            /\ UNCHANGED <<rt_status, observer, scan_thread, watchers, consumers,
                           stop_event, events, watched_paths>>
       ELSE /\ stop_event' = TRUE
            /\ watchers' = watchers \ {observer[k] : k \in DOMAIN observer}
            /\ observer' = <<>>
            /\ consumers' = {c \in consumers :
                                ~(<<c.id>> = scan_thread /\ c.pc = "idle")}
            /\ scan_thread' = <<>>
            /\ watched_paths' = {}
            /\ rt_status' = "DISABLED"
            /\ events' = Append(events,
                                ProtectionEvent("protection_stopped", NoPath,
                                                "Real-time protection disabled", <<>>))
            /\ rt_last' = [op |-> "stop", noop |-> FALSE]
    /\ UNCHANGED <<scan_queue, recent_files, auto_quarantine, notified, starts, arrivals>>
    /\ UNCHANGED <<quarVars, rtFrame>>

\* RealtimeProtection.pause
pause ==
    /\ rt_status' = IF rt_status = "ENABLED" THEN "PAUSED" ELSE rt_status
    /\ rt_last' = [op |-> "other"]
    /\ UNCHANGED <<observer, scan_thread, watchers, consumers, stop_event, scan_queue,
                   recent_files, events, watched_paths, auto_quarantine, notified,
                   starts, arrivals>>
    /\ UNCHANGED <<quarVars, rtFrame>>

\* RealtimeProtection.resume
resume ==
    /\ rt_status' = IF rt_status = "PAUSED" THEN "ENABLED" ELSE rt_status
    /\ rt_last' = [op |-> "other"]
    /\ UNCHANGED <<observer, scan_thread, watchers, consumers, stop_event, scan_queue,
                   recent_files, events, watched_paths, auto_quarantine, notified,
                   starts, arrivals>>
    /\ UNCHANGED <<quarVars, rtFrame>>

\* RealtimeProtection.set_auto_quarantine
set_auto_quarantine(enabled) ==
    /\ auto_quarantine' = enabled
    /\ rt_last' = [op |-> "other"]
    /\ UNCHANGED <<rt_status, observer, scan_thread, watchers, consumers, stop_event,
                   scan_queue, recent_files, events, watched_paths, notified, starts,
                   arrivals>>
    /\ UNCHANGED <<quarVars, rtFrame>>

\* `ext in HIGH_RISK_EXTENSIONS or ext in SCANNABLE_EXTENSIONS`, with no
\* look at the extension
should_scan_Always(ext) == TRUE

should_scan(ext) == ext \in HIGH_RISK_EXTENSIONS \/ ext \in SCANNABLE_EXTENSIONS

\* RealtimeProtection._queue_file, called by FileEventHandler.on_created
\* (or by a caller that feeds an event)
queue_file(file_path, event_type) ==
    /\ arrivals < MaxFileEvents
    /\ arrivals' = arrivals + 1
    /\ IF rt_status # "ENABLED" \/ file_path \in recent_files
       THEN /\ rt_last' = [op |-> "queue_file", path |-> file_path]
            /\ UNCHANGED <<recent_files, scan_queue>>
       ELSE /\ recent_files' = IF Cardinality(recent_files \cup {file_path}) > RecentCap
                               THEN {}
                               ELSE recent_files \cup {file_path}
            /\ scan_queue' = IF should_scan(splitext(file_path))
                             THEN Append(scan_queue,
                                         [path |-> file_path, event_type |-> event_type])
                             ELSE scan_queue
            /\ rt_last' = [op |-> "queue_file", path |-> file_path]
    /\ UNCHANGED <<rt_status, observer, scan_thread, watchers, consumers, stop_event,
                   events, watched_paths, auto_quarantine, notified, starts>>
    /\ UNCHANGED <<quarVars, rtFrame>>

\* _scan_worker, lines 159-163: the loop test and the queue pop (a pop that
\* times out on an empty queue leaves the thread where it is)
worker_get(t) ==
    /\ Idle(t) \in consumers
    /\ ~stop_event
    /\ scan_queue # <<>>
    /\ scan_queue' = Tail(scan_queue)
    /\ consumers' = (consumers \ {Idle(t)})
                       \cup {[id |-> t, pc |-> "got", item |-> <<Head(scan_queue)>>]}
    /\ rt_last' = [op |-> "other"]
    /\ UNCHANGED <<rt_status, observer, scan_thread, watchers, stop_event, recent_files,
                   events, watched_paths, auto_quarantine, notified, starts, arrivals>>
    /\ UNCHANGED <<quarVars, rtFrame>>

\* _scan_worker, line 159: the loop test finds the stop event set
worker_exit(t) ==
    /\ Idle(t) \in consumers
    /\ stop_event
    /\ consumers' = consumers \ {Idle(t)}
    /\ rt_last' = [op |-> "other"]
    /\ UNCHANGED <<rt_status, observer, scan_thread, watchers, stop_event, scan_queue,
                   recent_files, events, watched_paths, auto_quarantine, notified,
                   starts, arrivals>>
    /\ UNCHANGED <<quarVars, rtFrame>>

\* _scan_worker, lines 165-166: the stop event is found set after the pop,
\* the entry is dropped and the thread leaves the loop
worker_break(t) ==
    /\ stop_event
    /\ \E c \in consumers :
          /\ c.id = t /\ c.pc = "got"
          /\ consumers' = consumers \ {c}
    /\ rt_last' = [op |-> "other"]
    /\ UNCHANGED <<rt_status, observer, scan_thread, watchers, stop_event, scan_queue,
                   recent_files, events, watched_paths, auto_quarantine, notified,
                   starts, arrivals>>
    /\ UNCHANGED <<quarVars, rtFrame>>

\* _scan_worker, lines 165-169: the stop event is found clear after the pop
\* and the thread goes on to the file (it sleeps 0.2 s first)
worker_sleep(t) ==
    /\ ~stop_event
    /\ \E c \in consumers :
          /\ c.id = t /\ c.pc = "got"
          /\ consumers' = (consumers \ {c}) \cup {[c EXCEPT !.pc = "scanning"]}
    /\ rt_last' = [op |-> "other"]
    /\ UNCHANGED <<rt_status, observer, scan_thread, watchers, stop_event, scan_queue,
                   recent_files, events, watched_paths, auto_quarantine, notified,
                   starts, arrivals>>
    /\ UNCHANGED <<quarVars, rtFrame>>

\* lines 177-189: the action the ProtectionEvent reports; in the first reading
\* a failed isolation has a name of its own
action_taken_FailureNamed(threat, isolate, isolated) ==
    IF ~threat THEN "scanned"
    ELSE IF ~isolate THEN "threat_detected"
    ELSE IF isolated THEN "quarantined" ELSE "quarantine_failed"

action_taken(threat, isolate, isolated) ==
    IF ~threat THEN "scanned"
    ELSE IF isolate /\ isolated THEN "quarantined"
    ELSE "threat_detected"

\* what worker_process is given: the isolation goes through, its blob write
\* fails, or QuarantineManager() raises (os.makedirs on the quarantine root)
WorkerIo == RtIo \cup {"manager_raises"}

\* _scan_worker, lines 171-213, by a thread that is past the sleep: the
\* existence check, scan_file (which waits while the engine is paused and not
\* cancelled), the threat broadcast, the isolation by a QuarantineManager()
\* constructed on the spot (it loads the journal), the ProtectionEvent (with
\* action "error: ..." when the try block raised), the discard from
\* _recent_files. `io`: what happens to the isolation.
worker_process(t, io) ==
    \E c \in consumers :
       /\ c.id = t /\ c.pc = "scanning"
       /\ LET file_path == c.item[1].path
              event_type == c.item[1].event_type
          IN  IF ~exists(fs, file_path)
              THEN \* `continue`, past the discard of lines 211-213
                   /\ io = "ok"
                   /\ rt_last' = [op |-> "worker_process", path |-> file_path,
                                  event_called |-> {}, threat_called |-> {}]
                   /\ UNCHANGED <<recent_files, events, notified>>
                   /\ UNCHANGED <<fs, blobs, journal, clock, faults>>
              ELSE /\ ~pause_flag \/ cancel_flag
                   /\ LET data == read(fs, file_path)
                          f == FileOnDisk(file_path, data)
                          result == IF cancel_flag THEN CancelledResult(f)
                                    ELSE Classify(f, custom_hashes, custom_patterns,
                                                  score_threshold).result
                          threat == is_threat(result)
                          isolate == threat /\ auto_quarantine
                          raised == isolate /\ io = "manager_raises"
                          isolated == isolate /\ ~raised /\ encrypt_file(io)
                          item_id == generate_id(file_path, clock + 1)
                          item == QuarantinedItem(item_id, file_path, data, <<result>>)
                      IN  /\ notified' = IF threat THEN notified + 1 ELSE notified
                          /\ IF raised
                             THEN /\ Faulty(TRUE)
                                  /\ UNCHANGED <<fs, blobs, journal, clock>>
                             ELSE IF isolate
                             THEN /\ clock < MaxQuarantines
                                  /\ clock' = clock + 1
                                  /\ Faulty(io # "ok")
                                  /\ blobs' = write(blobs, quarantine_path(item_id),
                                                    IF isolated THEN encrypt(data)
                                                    ELSE <<>>)
                                  /\ fs' = IF isolated THEN remove(fs, file_path)
                                           ELSE fs
                                  /\ journal' = IF isolated
                                                THEN without(journal, item_id) \cup {item}
                                                ELSE journal
                             ELSE /\ io = "ok"
                                  /\ UNCHANGED <<fs, blobs, journal, clock, faults>>
                          /\ events' =
                                Append(events,
                                       IF raised
                                       THEN ProtectionEvent(event_type, file_path,
                                                            "error", <<>>)
                                       ELSE ProtectionEvent(event_type, file_path,
                                                            action_taken(threat, isolate,
                                                                         isolated),
                                                            IF threat THEN <<result>>
                                                            ELSE <<>>))
                          /\ recent_files' = recent_files \ {file_path}
                          /\ rt_last' = [op |-> "worker_process", path |-> file_path,
                                         event_called |-> invoked(event_callbacks),
                                         threat_called |-> IF threat
                                                           THEN invoked(threat_callbacks)
                                                           ELSE {}]
       /\ consumers' = (consumers \ {c}) \cup {Idle(t)}
       /\ UNCHANGED <<rt_status, observer, scan_thread, watchers, stop_event, scan_queue,
                      watched_paths, auto_quarantine, starts, arrivals>>
       /\ UNCHANGED <<items, last_op, rtFrame>>

\* RealtimeProtection.get_recent_events: self._events[-count:], for count >= 1
\* the last `count` events (all of them when there are fewer)
get_recent_events(count) ==
    /\ rt_last' = [op |-> "get_recent_events", count |-> count,
                   ret |-> SubSeq(events,
                                  IF Len(events) > count THEN Len(events) - count + 1
                                  ELSE 1,
                                  Len(events))]
    /\ UNCHANGED <<rt_status, observer, scan_thread, watchers, consumers, stop_event,
                   scan_queue, recent_files, events, watched_paths, auto_quarantine,
                   notified, starts, arrivals>>
    /\ UNCHANGED <<quarVars, rtFrame>>

\* the monitor takes in file events and processes them
NextRealtime ==
    \/ \E e \in RtFiles : file_appears(e.path, e.data)
    \/ \E paths \in RtPathArgs, raises \in BOOLEAN : start(paths, raises)
    \/ pause
    \/ resume
    \/ \E enabled \in BOOLEAN : set_auto_quarantine(enabled)
    \/ \E q \in RtPaths, et \in EventTypes : queue_file(q, et)
    \/ \E t \in 1..MaxStarts : worker_get(t)
    \/ \E t \in 1..MaxStarts : worker_sleep(t)
    \/ \E t \in 1..MaxStarts, io \in WorkerIo : worker_process(t, io)

SpecRealtime == Init /\ [][NextRealtime]_vars

\* the monitor is started, paused, resumed and stopped while one file
\* appears and its events are processed
LifecycleFiles == {e \in RtFiles : e.path.name = "drop.bat" /\ e.data = ShadowDelete}

\* the counts get_recent_events is called with
RecentCounts == {1, 2}

NextLifecycle ==
    \/ \E e \in LifecycleFiles : file_appears(e.path, e.data)
    \/ \E paths \in RtPathArgs, raises \in BOOLEAN : start(paths, raises)
    \/ stop
    \/ pause
    \/ resume
    \/ \E e \in LifecycleFiles, et \in EventTypes : queue_file(e.path, et)
    \/ \E t \in 1..MaxStarts : worker_get(t)
    \/ \E t \in 1..MaxStarts : worker_exit(t)
    \/ \E t \in 1..MaxStarts : worker_break(t)
    \/ \E t \in 1..MaxStarts : worker_sleep(t)
    \/ \E t \in 1..MaxStarts, io \in WorkerIo : worker_process(t, io)
    \/ \E count \in RecentCounts : get_recent_events(count)

SpecLifecycle == Init /\ [][NextLifecycle]_vars

\* the n-th file of the watched directory that no event has named yet, with
\* an extension that is not scanned (a log, a document draft, a download part)
FreshPath(n) == [dir |-> RtDir, name |-> "fresh.tmp", nth |-> n]

\* the fresh paths that the debounce set holds
FreshHeld == { p \in recent_files : p.name = "fresh.tmp" }

\* RealtimeProtection._queue_file for an event that names a fresh path
queue_fresh_file ==
    LET file_path == FreshPath(Cardinality(FreshHeld) + 1)
    IN  /\ rt_status = "ENABLED"
        /\ recent_files' = IF Cardinality(recent_files \cup {file_path}) > RecentCap
                           THEN {}
                           ELSE recent_files \cup {file_path}
        /\ scan_queue' = IF should_scan(splitext(file_path))
                         THEN Append(scan_queue,
                                     [path |-> file_path, event_type |-> "created"])
                         ELSE scan_queue
        /\ rt_last' = [op |-> "queue_file", path |-> file_path]
        /\ UNCHANGED <<rt_status, observer, scan_thread, watchers, consumers,
                       stop_event, events, watched_paths, auto_quarantine, notified,
                       starts, arrivals>>
        /\ UNCHANGED <<quarVars, rtFrame>>

\* a running monitor, files that keep appearing in the watched directory, and
\* events that name one of them again
NextDebounce ==
    \/ \E e \in LifecycleFiles : file_appears(e.path, e.data)
    \/ \E paths \in {{RtDir}} : start(paths, FALSE)
    \/ \E e \in LifecycleFiles, et \in EventTypes : queue_file(e.path, et)
    \/ queue_fresh_file
    \/ \E t \in 1..MaxStarts : worker_get(t)
    \/ \E t \in 1..MaxStarts : worker_sleep(t)
    \/ \E t \in 1..MaxStarts : worker_process(t, "ok")

SpecDebounce == Init /\ [][NextDebounce]_vars

\* the entries of path p that are pending in the queue or being processed
Entries(p) ==
    Cardinality({ i \in 1..Len(scan_queue) : scan_queue[i].path = p })
    + Cardinality({ c \in consumers : c.item # <<>> /\ c.item[1].path = p })

\* C38: at every time a path has at most one entry in the work queue that is
\* pending or being processed, whatever number of distinct paths was seen in
\* between.
C38_OneEntryPerPath ==
    \A e \in LifecycleFiles : Entries(e.path) <= 1

\* callbacks registered on one list
MaxCallbacks == 2
\* what a registered callback does when it is called
CallbackKinds == {"returns", "raises"}

\* RealtimeProtection.add_event_callback
add_event_callback(kind) ==
    /\ Len(event_callbacks) < MaxCallbacks
    /\ event_callbacks' = Append(event_callbacks, kind)
    /\ rt_last' = [op |-> "other"]
    /\ UNCHANGED <<rt_status, observer, scan_thread, watchers, consumers, stop_event,
                   scan_queue, recent_files, events, watched_paths, auto_quarantine,
                   notified, starts, arrivals, watchdog_available, threat_callbacks>>
    /\ UNCHANGED <<quarVars, detectVars, heurVars, scanVars>>

\* RealtimeProtection.add_threat_callback
add_threat_callback(kind) ==
    /\ Len(threat_callbacks) < MaxCallbacks
    /\ threat_callbacks' = Append(threat_callbacks, kind)
    /\ rt_last' = [op |-> "other"]
    /\ UNCHANGED <<rt_status, observer, scan_thread, watchers, consumers, stop_event,
                   scan_queue, recent_files, events, watched_paths, auto_quarantine,
                   notified, starts, arrivals, watchdog_available, event_callbacks>>
    /\ UNCHANGED <<quarVars, detectVars, heurVars, scanVars>>

\* callbacks are registered on a monitor that takes in the events of one file
NextCallbacks ==
    \/ \E kind \in CallbackKinds : add_event_callback(kind)
    \/ \E kind \in CallbackKinds : add_threat_callback(kind)
    \/ \E e \in LifecycleFiles : file_appears(e.path, e.data)
    \/ \E paths \in RtPathArgs : start(paths, FALSE)
    \/ \E e \in LifecycleFiles, et \in EventTypes : queue_file(e.path, et)
    \/ \E t \in 1..MaxStarts : worker_get(t)
    \/ \E t \in 1..MaxStarts : worker_sleep(t)
    \/ \E t \in 1..MaxStarts : worker_process(t, "ok")

SpecCallbacks == Init /\ [][NextCallbacks]_vars

\* the monitor is started and stopped while the scan engine it shares with the
\* application (gui/app.py:37-39) is paused, resumed and cancelled by the
\* application's scan controls
NextStopping ==
    \/ \E e \in LifecycleFiles : file_appears(e.path, e.data)
    \/ \E paths \in RtPathArgs : start(paths, FALSE)
    \/ stop
    \/ \E e \in LifecycleFiles, et \in EventTypes : queue_file(e.path, et)
    \/ \E t \in 1..MaxStarts : worker_get(t)
    \/ \E t \in 1..MaxStarts : worker_exit(t)
    \/ \E t \in 1..MaxStarts : worker_break(t)
    \/ \E t \in 1..MaxStarts : worker_sleep(t)
    \/ \E t \in 1..MaxStarts : worker_process(t, "ok")
    \/ engine_pause
    \/ engine_resume
    \/ engine_cancel

\* a consumer thread that can take a step eventually takes it, and one that
\* waits in scan_file's pause loop gets through if the engine is resumed again
\* and again; nothing obliges the application to call the monitor or the engine
SpecStopping ==
    /\ Init /\ [][NextStopping]_vars
    /\ WF_vars(\E t \in 1..MaxStarts : worker_get(t))
    /\ WF_vars(\E t \in 1..MaxStarts : worker_exit(t))
    /\ WF_vars(\E t \in 1..MaxStarts : worker_break(t))
    /\ WF_vars(\E t \in 1..MaxStarts : worker_sleep(t))
    /\ SF_vars(\E t \in 1..MaxStarts : worker_process(t, "ok"))

\* the application's QuarantineManager (gui/app.py:41, its map is `items`) and
\* the monitor's consumer, which constructs a QuarantineManager of its own for
\* every isolation (realtime.py:184-185), work over the same quarantine root
NextShared ==
    \/ \E q \in FaultPaths, c \in FaultContents : create_file(q, c)
    \/ \E q \in FaultPaths, sr \in ScanResultArgs : quarantine_file(q, sr, "ok")
    \/ \E id \in FaultIds : restore_file(id, <<>>, TRUE)
    \/ \E id \in FaultIds : delete_permanently(id, TRUE)
    \/ \E e \in LifecycleFiles : file_appears(e.path, e.data)
    \/ \E paths \in RtPathArgs : start(paths, FALSE)
    \/ set_auto_quarantine(TRUE)
    \/ \E e \in LifecycleFiles, et \in EventTypes : queue_file(e.path, et)
    \/ \E t \in 1..MaxStarts : worker_get(t)
    \/ \E t \in 1..MaxStarts : worker_sleep(t)
    \/ \E t \in 1..MaxStarts : worker_process(t, "ok")

SpecShared == Init /\ [][NextShared]_vars

\* the same calls, in a process in which the watchdog package may be missing
\* (WATCHDOG_AVAILABLE is set once, by the import at the top of the module)
InitStartup ==
    /\ InitDetect /\ InitHeurIdle /\ InitScan /\ InitQuarantine
    /\ watchdog_available \in BOOLEAN
    /\ InitMonitor

SpecStartup == InitStartup /\ [][NextLifecycle]_vars

(***************************************************************************)
(* Claims about the intake and the processing of file events               *)
(***************************************************************************)
\* the file at p exists and a pattern rule matches its content
PatternFile(p) ==
    /\ exists(fs, p)
    /\ check_patterns(custom_patterns, FileOnDisk(p, read(fs, p)).pats) # NoMatch

\* the step is a _queue_file call, by a monitor that is ENABLED, for a
\* pattern file that is not in the recently-seen set
PatternFileEvent ==
    /\ rt_last'.op = "queue_file"
    /\ rt_status = "ENABLED"
    /\ rt_last'.path \notin recent_files
    /\ PatternFile(rt_last'.path)

\* the step is the processing of a dequeued pattern file by a consumer, with
\* the engine neither cancelled nor paused
PatternFileProcessed ==
    /\ rt_last'.op = "worker_process"
    /\ PatternFile(rt_last'.path)
    /\ ~cancel_flag /\ ~pause_flag

\* the event's path is appended to the work queue
Queued ==
    scan_queue' = Append(scan_queue, [path |-> rt_last'.path, event_type |-> "created"])

\* exactly one ProtectionEvent is appended, for the path, with the action
Reported(action) ==
    /\ Len(events') = Len(events) + 1
    /\ SubSeq(events', 1, Len(events)) = events
    /\ events'[Len(events')].file_path = rt_last'.path
    /\ events'[Len(events')].action_taken = action
    /\ events'[Len(events')].threat_info # <<>>

ScannedExtensions == HIGH_RISK_EXTENSIONS \cup SCANNABLE_EXTENSIONS

\* the quarantine and the file are as before
QuarantineUntouched ==
    /\ journal' = journal
    /\ items' = items
    /\ blobs' = blobs
    /\ fs' = fs

\* C11 as stated: with auto-quarantine off, a file-created event for an
\* existing pattern file is queued, whatever the file's name, and its
\* processing appends exactly one ProtectionEvent, with action
\* threat_detected, and changes neither the quarantine nor the file.
C11_EveryPatternFileDetected ==
    [][/\ PatternFileEvent => Queued
       /\ (PatternFileProcessed /\ ~auto_quarantine)
             => (Reported("threat_detected") /\ QuarantineUntouched)]_vars

\* C11, amended: the event is queued exactly when the extension of the path
\* is high-risk or scannable; for any other extension nothing is queued and
\* no ProtectionEvent follows.
C11_ScannedPatternFileDetected ==
    [][/\ PatternFileEvent
             => IF splitext(rt_last'.path) \in ScannedExtensions
                THEN Queued ELSE UNCHANGED scan_queue
       /\ (PatternFileProcessed /\ ~auto_quarantine)
             => (Reported("threat_detected") /\ QuarantineUntouched)]_vars

\* with auto-quarantine off and nothing ever isolated, the consumer has
\* reported the pattern file, which is still in place
C11_Witness ==
    /\ rt_last.op = "worker_process"
    /\ ~auto_quarantine
    /\ events # <<>>
    /\ events[Len(events)].action_taken = "threat_detected"
    /\ events[Len(events)].event_type = "created"
    /\ exists(fs, events[Len(events)].file_path)
    /\ journal = {} /\ blobs = {} /\ clock = 0

\* exactly one record is added to the journal: that of the file at the
\* event's path, whose blob decrypts to the content of the file, and the
\* file is gone
Isolated ==
    /\ journal \subseteq journal'
    /\ \E it \in journal' \ journal :
          /\ journal' \ journal = {it}
          /\ it.original_path = rt_last'.path
          /\ exists(blobs', it.quarantine_path)
          /\ decrypt(read(blobs', it.quarantine_path)) =
                [ok |-> TRUE, data |-> read(fs, rt_last'.path)]
    /\ ~exists(fs', rt_last'.path)

ErrorReported ==
    /\ Len(events') = Len(events) + 1
    /\ SubSeq(events', 1, Len(events)) = events
    /\ events'[Len(events')].file_path = rt_last'.path
    /\ events'[Len(events')].action_taken = "error"
    /\ events'[Len(events')].threat_info = <<>>

C19_StopWhenDisabledIsNoOp ==
    [][(rt_last'.op = "stop" /\ rt_status = "DISABLED")
         => UNCHANGED <<rt_status, watched_paths, scan_queue, events, notified,
                        observer, scan_thread, watchers, consumers, stop_event,
                        recent_files>>]_vars

\* stop() has returned at once on a stopped monitor that has a log and a
\* queued entry
C19_Witness ==
    /\ rt_last.op = "stop"
    /\ rt_last.noop
    /\ rt_status = "DISABLED"
    /\ events # <<>>
    /\ scan_queue # <<>>

\* C20: at every time at most one consumer thread and at most one watcher
\* of the monitor are running.
C20_OneConsumerOneWatcher ==
    /\ Cardinality(consumers) <= 1
    /\ Cardinality(watchers) <= 1

(***************************************************************************)
(* Claims about the consumer's bookkeeping (checked under SpecRealtime).   *)
(***************************************************************************)
\* C22 as stated: once the consumer has finished with a dequeued path,
\* whatever the outcome (scanned, quarantined, processing error, or the file
\* gone when it is re-checked), the path is no longer in the recently-seen
\* set, so a later event for the same path is queued again.
C22_FinishedPathForgotten ==
    [][rt_last'.op = "worker_process" => rt_last'.path \notin recent_files']_vars


\* scan_file of the file at p returns a threat: the engine is not cancelled
\* and the detection pipeline does not classify the content as CLEAN
ScanFindsThreat(p) ==
    /\ ~cancel_flag
    /\ Classify(FileOnDisk(p, read(fs, p)), custom_hashes, custom_patterns,
                score_threshold).result.threat_level # "CLEAN"

\* C23: for every dequeued path that still exists when the consumer re-checks
\* it, exactly one ProtectionEvent is appended to the event log, for that path,
\* with action scanned, quarantined, threat_detected or error:<msg>, and the
\* threat callbacks are invoked exactly when the scan result is a threat.
C23_OneEventPerProcessedFile ==
    [][(rt_last'.op = "worker_process" /\ exists(fs, rt_last'.path))
         => /\ Len(events') = Len(events) + 1
            /\ SubSeq(events', 1, Len(events)) = events
            /\ events'[Len(events')].file_path = rt_last'.path
            /\ events'[Len(events')].action_taken
                  \in {"scanned", "quarantined", "threat_detected", "error"}
            /\ IF ScanFindsThreat(rt_last'.path)
               THEN /\ notified' = notified + 1
                    /\ rt_last'.threat_called = DOMAIN threat_callbacks
               ELSE /\ notified' = notified
                    /\ rt_last'.threat_called = {}]_vars

\* the consumer has broadcast a threat and, the isolation having raised,
\* reported it with an error action; the file is still in place
C23_Witness ==
    /\ rt_last.op = "worker_process"
    /\ exists(fs, rt_last.path)
    /\ auto_quarantine
    /\ events[Len(events)].action_taken = "error"
    /\ events[Len(events)].file_path = rt_last.path
    /\ notified = 1

(***************************************************************************)
(* Claims about the event log (checked under SpecLifecycle).               *)
(***************************************************************************)
\* C24 as stated: the ProtectionEvent log is bounded by a retention count the
\* caller configures: whatever was processed and however often the monitor was
\* started and stopped, the log retains no more events than the count the
\* caller gave.
C24_LogWithinRetention ==
    rt_last.op = "get_recent_events" =>
       /\ Len(rt_last.ret) <= rt_last.count
       /\ Len(events) <= rt_last.count

(***************************************************************************)
(* Claims about start() (checked under SpecStartup).                       *)
(***************************************************************************)
\* C25: start() returns (it never raises to its caller), and when the
\* file-notification facility is unavailable or starting the watcher or the
\* consumer raises, it returns false and leaves the status ERROR, not DISABLED
\* and not ENABLED.
C25_FailedStartLeavesError ==
    [][rt_last'.op = "start"
         => /\ rt_last'.ret \in BOOLEAN
            /\ (~watchdog_available \/ rt_last'.why = "raised")
                  => (rt_last'.ret = FALSE /\ rt_status' = "ERROR")]_vars

\* a monitor that ran and was stopped is started again, the start raises:
\* false is returned and the status is ERROR
C25_Witness ==
    /\ rt_last.op = "start"
    /\ rt_last.why = "raised"
    /\ rt_last.ret = FALSE
    /\ rt_status = "ERROR"
    /\ \E i \in 1..Len(events) : events[i].event_type = "protection_stopped"

(***************************************************************************)
(* Claims about callbacks that raise (checked under SpecCallbacks).        *)
(***************************************************************************)
\* C26: a registered event or threat callback that raises does not break
\* monitoring: when the consumer processes an existing file, the event is
\* appended to the log, every registered event callback is invoked and, for a
\* threat, every registered threat callback, whichever of them raise, and the
\* consumer thread is back at the top of its loop, where it takes the next
\* queued path.
C26_RaisingCallbackTolerated ==
    [][(rt_last'.op = "worker_process" /\ exists(fs, rt_last'.path))
         => /\ Len(events') = Len(events) + 1
            /\ events'[Len(events')].file_path = rt_last'.path
            /\ rt_last'.event_called = DOMAIN event_callbacks
            /\ ScanFindsThreat(rt_last'.path)
                  => rt_last'.threat_called = DOMAIN threat_callbacks
            /\ \E t \in 1..MaxStarts : Idle(t) \in consumers' \ consumers]_vars

\* both lists start with a callback that raises and hold a second one; the
\* consumer has processed a second path after them, and called all of them
C26_Witness ==
    /\ rt_last.op = "worker_process"
    /\ Len(event_callbacks) = 2 /\ event_callbacks[1] = "raises"
    /\ Len(threat_callbacks) = 2 /\ threat_callbacks[1] = "raises"
    /\ rt_last.event_called = {1, 2}
    /\ rt_last.threat_called = {1, 2}
    /\ Cardinality({i \in 1..Len(events) : events[i].event_type = "created"}) = 2
    /\ notified = 2

(***************************************************************************)
(* Claims about the termination of the consumer (checked under             *)
(* SpecStopping).                                                          *)
(***************************************************************************)
\* C21 as stated: once stop() has set the stop event, and for as long as it
\* stays set, every consumer thread eventually observes it and exits, in
\* whatever state the signal finds it: the queue empty or not, a file being
\* scanned, the shared scan engine paused or cancelled.
C21_ConsumerExitsAfterStop ==
    stop_event ~> (consumers = {} \/ ~stop_event)

(***************************************************************************)
(* Claims about the journal under two managers (checked under SpecShared). *)
(***************************************************************************)
\* C29 as stated: isolate, restore and delete are serialized read-modify-write
\* operations on the journal, also across QuarantineManager instances over the
\* same root: a record that one operation wrote stays in the journal through
\* every other operation, and leaves it only by the restore or delete call
\* made for its id.
C29_NoJournalRecordLost ==
    [][\A it \in journal :
          \/ it \in journal'
          \/ /\ last_op'.op \in {"restore_file", "delete_permanently"}
             /\ last_op'.id = it.id]_vars

(***************************************************************************)
(* The fair scan specification: the scan of SpecScan with its threads      *)
(* scheduled fairly. The thread of scan_directory and the pool threads     *)
(* take the steps they can take; a worker that polls the pause flag every  *)
(* 0.1 s gets through when the engine is resumed again and again. Nothing  *)
(* obliges the application to call cancel, pause or resume.                *)
(***************************************************************************)
\* where each submitted call is: pending, waiting (in _scan_file) or done
futureStates == [i \in 1..Len(futures) |-> futures[i].state]

SpecScanFair ==
    /\ Init /\ [][NextScan]_vars
    /\ WF_pc(scan_enumerate)
    /\ WF_pc(scan_submit)
    /\ WF_futureStates(\E i \in 1..Len(futures) : worker_start(i))
    /\ SF_futureStates(\E i \in 1..Len(futures) : worker_scan(i))
    /\ WF_pc(\E i \in 1..Len(futures) : scan_next(i))
    /\ WF_pc(scan_exhausted)
    /\ WF_pc(scan_aggregate)
    /\ WF_pc(scan_join)
    /\ WF_pc(scan_finish)

\* a scan_directory call is under way
InScan == pc \notin {"idle", "done", "raised"}

\* every enumerated file has exactly one result
AggregatedOnce ==
    /\ Len(results) = Len(files_to_scan)
    /\ \A i \in 1..Len(files_to_scan) :
          Cardinality({ k \in 1..Len(results) :
                          results[k].file_path = files_to_scan[i].name }) = 1

\* C33: pause() followed later by resume() loses no progress: the results and
\* the scanned_files count accumulated before are kept by both calls, and under
\* fair scheduling a scan that is resumed after every pause, and not cancelled,
\* ends with status completed and every enumerated file aggregated exactly once.
C33_ResumedScanCompletes ==
    /\ [][(pause_flag' # pause_flag /\ pc' = pc) =>
             /\ results' = results
             /\ progress'.scanned_files = progress.scanned_files]_vars
    /\ ([]<>(~pause_flag)) =>
          ((InScan /\ pause_flag /\ ~cancel_flag) ~>
              (\/ cancel_flag
               \/ /\ pc = "done"
                  /\ outcome.final.status = "completed"
                  /\ files_to_scan = Enumerated(directory)
                  /\ AggregatedOnce))

\* C34: after cancel() was called during a scan, in any state, paused with the
\* workers in the pause wait loop included, every worker returns and the scan
\* call terminates with final status cancelled.
C34_CancelledScanTerminates ==
    (InScan /\ cancel_flag) ~>
        (/\ pc = "done"
         /\ \A i \in 1..Len(futures) : futures[i].state = "done"
         /\ outcome.final.status = "cancelled")


(***************************************************************************)
(* The stepwise quarantine specification: one quarantine_file call taken   *)
(* statement by statement, each of which may raise, with the process       *)
(* allowed to die between any two of them.                                 *)
(***************************************************************************)
\* the call is over: it returned `how`, or the process died
Left(how) == [q_call EXCEPT !.pc = how]

InCall == q_call.pc \in {"read", "open", "write", "remove", "record"}

\* lines 161-176: the existence check, the id, the hash and the size
quarantine_begin(file_path) ==
    /\ ~InCall
    /\ clock < MaxQuarantines
    /\ clock' = clock + 1
    /\ exists(fs, file_path)
    /\ q_call' = [pc |-> "read", path |-> file_path,
                  id |-> generate_id(file_path, clock'),
                  data |-> read(fs, file_path)]
    /\ last_op' = [op |-> "quarantine_begin"]
    /\ UNCHANGED <<fs, blobs, items, journal, faults, otherFrame>>

\* _encrypt_file lines 117-123: the source is read and XOR-ed in memory
encrypt_read(ok) ==
    /\ q_call.pc = "read"
    /\ Faulty(~ok)
    /\ q_call' = IF ok THEN [q_call EXCEPT !.pc = "open"]
                 ELSE IF encrypt_file("read_fails")
                 THEN [q_call EXCEPT !.pc = "remove"] ELSE Left("none")
    /\ last_op' = [op |-> "encrypt_read"]
    /\ UNCHANGED <<fs, blobs, items, journal, clock, otherFrame>>

\* line 126: open(dest_path, 'wb') creates the blob, empty
encrypt_open(ok) ==
    /\ q_call.pc = "open"
    /\ Faulty(~ok)
    /\ blobs' = IF ok THEN write(blobs, quarantine_path(q_call.id), <<>>) ELSE blobs
    /\ q_call' = IF ok THEN [q_call EXCEPT !.pc = "write"]
                 ELSE IF encrypt_file("write_fails")
                 THEN [q_call EXCEPT !.pc = "remove"] ELSE Left("none")
    /\ last_op' = [op |-> "encrypt_open"]
    /\ UNCHANGED <<fs, items, journal, clock, otherFrame>>

\* lines 127-128 and the close of the file: the header and the encrypted bytes
\* are written; a write that fails leaves `part` of them
encrypt_write(ok, part) ==
    /\ q_call.pc = "write"
    /\ Faulty(~ok)
    /\ blobs' = write(blobs, quarantine_path(q_call.id),
                      IF ok THEN encrypt(q_call.data) ELSE part)
    /\ q_call' = IF ok \/ encrypt_file("write_fails")
                 THEN [q_call EXCEPT !.pc = "remove"] ELSE Left("none")
    /\ last_op' = [op |-> "encrypt_write"]
    /\ UNCHANGED <<fs, items, journal, clock, otherFrame>>

\* lines 183-188: os.remove(file_path), with the chmod retry
remove_original(ok) ==
    /\ q_call.pc = "remove"
    /\ Faulty(~ok)
    /\ fs' = IF ok THEN remove(fs, q_call.path) ELSE fs
    /\ q_call' = IF ok THEN [q_call EXCEPT !.pc = "record"] ELSE Left("none")
    /\ last_op' = [op |-> "remove_original"]
    /\ UNCHANGED <<blobs, items, journal, clock, otherFrame>>

\* lines 191-207: the item is built, put into the map and saved
record_item(sr, saved) ==
    /\ q_call.pc = "record"
    /\ Faulty(~saved)
    /\ items' = without(items, q_call.id)
                   \cup {QuarantinedItem(q_call.id, q_call.path, q_call.data, sr)}
    /\ save_database(items', saved)
    /\ q_call' = Left("item")
    /\ last_op' = [op |-> "record_item"]
    /\ UNCHANGED <<fs, blobs, clock, faults, otherFrame>>

\* the process dies inside the call; the next process constructs its manager
\* over what is on the disk
crash ==
    /\ InCall
    /\ q_call' = Left("crashed")
    /\ items' = journal
    /\ last_op' = [op |-> "crash"]
    /\ UNCHANGED <<fs, blobs, journal, clock, faults, otherFrame>>

\* what a failed write may leave of a blob
PartialBlobs == {<<>>, MAGIC}

NextQuarantineSteps ==
    \/ \E q \in QPaths, c \in Contents : create_file(q, c)
    \/ \E q \in QPaths : quarantine_begin(q)
    \/ \E ok \in BOOLEAN : encrypt_read(ok)
    \/ \E ok \in BOOLEAN : encrypt_open(ok)
    \/ \E ok \in BOOLEAN, part \in PartialBlobs : encrypt_write(ok, part)
    \/ \E ok \in BOOLEAN : remove_original(ok)
    \/ \E sr \in ScanResultArgs, saved \in BOOLEAN : record_item(sr, saved)
    \/ crash

SpecQuarantineSteps == Init /\ [][NextQuarantineSteps]_vars

OriginalInPlace ==
    exists(fs, q_call.path) /\ read(fs, q_call.path) = q_call.data

BlobComplete ==
    /\ exists(blobs, quarantine_path(q_call.id))
    /\ read(blobs, quarantine_path(q_call.id)) = encrypt(q_call.data)

\* C37: at every intermediate point of quarantine_file, and after a failure or
\* a crash at any step, the original bytes are recoverable: the original file
\* is still at its path, or a completely written encrypted blob of it is in the
\* quarantine directory.
C37_OriginalOrCompleteBlob ==
    q_call.pc # "idle" => (OriginalInPlace \/ BlobComplete)

\* the process died after the original was removed and before the record was
\* made: the blob is all that is left
C37_Witness ==
    /\ q_call.pc = "crashed"
    /\ ~exists(fs, q_call.path)
    /\ BlobComplete
    /\ ~has_item(journal, q_call.id)
    /\ q_call.data # <<>>


(***************************************************************************)
(* Claims about the quarantine directory and the journal (checked under    *)
(* SpecQuarantineCalls).                                                   *)
(***************************************************************************)
\* C36: after any sequence of quarantine_file, restore_file and
\* delete_permanently calls on one manager, calls that fail part-way included,
\* every blob in the quarantine directory is referenced by exactly one journal
\* record and the blob of every journal record exists.
C36_BlobsMatchJournal ==
    /\ \A b \in blobs :
          Cardinality({r \in journal : r.quarantine_path = b.path}) = 1
    /\ \A r \in journal : exists(blobs, r.quarantine_path)


(***************************************************************************)
(* The single-file specification: batch scans of a directory, with cancel, *)
(* pause and resume, and scan_file calls on the same engine, as the        *)
(* realtime consumer and the application make them.                        *)
(***************************************************************************)
NoCallbacks == [on_threat_found |-> "none", progress |-> "none"]

\* the files handed to scan_file: a clean one and the EICAR file
SingleFiles == {DirFiles[1], DirFiles[2]}

NextSingleFile ==
    \/ \E d \in Directories : scan_start(d, NoCallbacks)
    \/ scan_enumerate
    \/ scan_submit
    \/ \E i \in 1..Len(futures) : worker_start(i)
    \/ \E i \in 1..Len(futures) : worker_scan(i)
    \/ \E i \in 1..Len(futures) : scan_next(i)
    \/ scan_exhausted
    \/ scan_aggregate
    \/ scan_join
    \/ scan_finish
    \/ engine_cancel
    \/ engine_pause
    \/ engine_resume
    \/ \E f \in SingleFiles : scan_file(f)

SpecSingleFile == Init /\ [][NextSingleFile]_vars

\* C35: the result of scan_file depends on the file's content and the rule set
\* alone, not on the cancel or pause flag an earlier batch scan left behind: it
\* is what the detection pipeline returns for the file, so a file that matches
\* a signature is returned as that threat also after a batch scan was cancelled.
C35_SingleScanIgnoresBatchFlags ==
    LET classified == Classify(scanned.file, custom_hashes, custom_patterns,
                               score_threshold).result
    IN  (/\ scanned.called
         /\ pc = "done" /\ outcome.final.status = "cancelled"
         /\ is_threat(classified))
        => scanned.result = classified


(***************************************************************************)
(* Claims about heuristic results (checked under SpecDetect).              *)
(***************************************************************************)
\* C39: for every threshold set_threshold can install, every ScanResult whose
\* detection method is heuristic is a threat: its level is not CLEAN.
C39_HeuristicResultIsThreat ==
    (scanned.called /\ scanned.result.detection_method = "heuristic")
        => is_threat(scanned.result)


(***************************************************************************)
(* Claims about the final counters (checked under SpecScan).               *)
(***************************************************************************)
\* C40: whenever scan_directory returns with final status completed,
\* scanned_files equals total_files and the number of results returned, and
\* threats_found equals the number of returned results that are threats.
C40_CompletedCountsEverything ==
    (pc = "done" /\ outcome.final.status = "completed") =>
        /\ outcome.final.scanned_files = outcome.final.total_files
        /\ outcome.final.scanned_files = Len(results)
        /\ outcome.final.threats_found =
              Cardinality({ i \in 1..Len(results) : is_threat(results[i]) })

\* a completed scan of two files, one of them a threat
C40_Witness ==
    /\ pc = "done"
    /\ outcome.final.status = "completed"
    /\ Len(results) = 2
    /\ outcome.final.threats_found = 1


(***************************************************************************)
(* Claims about the results lock (checked under SpecScan).                 *)
(***************************************************************************)
\* C30 as stated: while the per-threat callback passed to scan_directory is
\* running (its result already recorded), the results/progress lock is not
\* held, so a get_results() or get_threats() call made by the callback returns.
C30_CallbackRunsUnlocked ==
    pc = "in_callback" =>
       /\ results # <<>> /\ is_threat(results[Len(results)])
       /\ get_results_returns


(***************************************************************************)
(* The signature specification: a SignatureDatabase is constructed over a  *)
(* signature file (_load_custom_signatures), signatures are added and the  *)
(* two lookups are called.                                                 *)
(***************************************************************************)
MaxLoaded == 2             \* pattern rules in a loaded signature file

LoadedNames == {"File.Sig.A", "File.Sig.B"}
\* the 'hashes' and 'patterns' lists of a signature file; a hash is written
\* in the file in either letter case
\* the digests looked up: a built-in one and one no built-in entry has
LookupDigests == {EICAR_SHA256, "aaaa0001"}
LookupHashes == [hex : LookupDigests, case : Cases]
\* the rule patterns that occur in the data looked up
LookupPatterns == {{}, {"custom1"}, {"eicar", "custom1"}, {"vssadmin", "custom1"}}

SignatureFiles ==
    [ hashes   : SeqsUpTo([hash : LookupHashes,
                           name : {"File.Hash"}, level : {"HIGH"}], 1),
      patterns : SeqsUpTo([name : LoadedNames, pattern : CustomRuleTokens,
                           level : {"HIGH"}], MaxLoaded) ]

\* _load_custom_signatures, hashes: custom_hashes[hash_sig['hash']] = {...};
\* a later entry of the list replaces an earlier one stored under the same key
RECURSIVE load_hashes(_)
load_hashes(hs) ==
    IF hs = <<>> THEN {}
    ELSE LET e == hs[Len(hs)]
             rest == load_hashes(SubSeq(hs, 1, Len(hs) - 1))
         IN  { x \in rest : x.key # e.hash }
                \cup { [key |-> e.hash, name |-> e.name, level |-> e.level] }

\* _load_custom_signatures, patterns: custom_patterns.append({...}) in file order
load_patterns(ps) == ps

InitSignatures ==
    /\ \E file \in SignatureFiles :
          /\ custom_hashes = load_hashes(file.hashes)
          /\ custom_patterns = load_patterns(file.patterns)
    /\ score_threshold = DefaultThreshold
    /\ scanned = NotScanned
    /\ lookup = NotLooked
    /\ InitHeurIdle /\ InitScan /\ InitQuarantine /\ InitRealtime

\* a caller asks both lookups about one file: check_hash(file_hash) and
\* check_patterns(data)
lookup_signatures(file_hash, pats) ==
    /\ lookup' = [called |-> TRUE, file_hash |-> file_hash, pats |-> pats,
                  hashes |-> custom_hashes, patterns |-> custom_patterns,
                  by_hash |-> check_hash(custom_hashes, file_hash),
                  by_pattern |-> check_patterns(custom_patterns, pats)]
    /\ UNCHANGED <<custom_hashes, custom_patterns, score_threshold, scanned,
                   heurVars, scanVars, quarVars, rtVars>>

NextSignatures ==
    \/ \E h \in LookupHashes, n \in CustomNames, l \in CustomLevels :
          add_hash_signature(h, n, l)
    \/ \E p \in CustomRuleTokens, n \in CustomNames, l \in CustomLevels :
          add_pattern_signature(p, n, l)
    \/ \E h \in LookupHashes, pats \in LookupPatterns :
          lookup_signatures(h, pats)

SpecSignatures == InitSignatures /\ [][NextSignatures]_vars


(***************************************************************************)
(* Claims about the signature lookups (checked under SpecSignatures).      *)
(***************************************************************************)
\* the earliest rule of the list built-in then custom whose pattern occurs
EarliestRule(customs, pats) ==
    LET rules == MALICIOUS_PATTERNS \o customs
        m == Matching(rules, pats)
    IN  IF m = {} THEN NoMatch
        ELSE Hit(rules[CHOOSE i \in m : \A j \in m : i <= j])

\* C27: lookups are first-match-wins over built-in then custom: check_patterns
\* returns the earliest matching rule of the built-in list followed by the
\* custom rules in insertion order; check_hash returns the built-in entry for a
\* hash that is in both tables; and adding a custom signature never changes
\* what a lookup returns for input that matches a built-in entry.
C27_FirstMatchWins ==
    [][ /\ lookup'.called =>
             /\ lookup'.by_pattern = EarliestRule(lookup'.patterns, lookup'.pats)
             /\ Has(KNOWN_HASHES, lower(lookup'.file_hash)) =>
                   lookup'.by_hash = Get(KNOWN_HASHES, lower(lookup'.file_hash))
        /\ \A h \in LookupHashes :
              Has(KNOWN_HASHES, lower(h)) =>
                 check_hash(custom_hashes', h) = check_hash(custom_hashes, h)
        /\ \A pats \in LookupPatterns :
              FirstMatch(MALICIOUS_PATTERNS, pats) # NoMatch =>
                 check_patterns(custom_patterns', pats)
                    = check_patterns(custom_patterns, pats)
      ]_vars

\* a lookup of a hash held by both tables answered with the built-in entry,
\* and of data matched by a built-in rule and by two custom rules
C27_Witness ==
    /\ lookup.called
    /\ Has(lookup.hashes, lower(lookup.file_hash))
    /\ lookup.file_hash.case = "upper"
    /\ lookup.by_hash = [name |-> "EICAR-Test-File", level |-> "LOW"]
    /\ Cardinality(Matching(lookup.patterns, lookup.pats)) >= 2
    /\ lookup.by_pattern = [name |-> "Suspicious.Shadow.Delete", level |-> "CRITICAL"]

\* C28 as stated: check_hash matches every custom hash entry for the same hex
\* digest given in any letter case, however the entry got into the table
\* (add_hash_signature or a loaded signature file) and in whatever case it was
\* supplied.
C28_HashMatchIgnoresCase ==
    lookup.called =>
       \A e \in lookup.hashes :
          lower(e.key) = lower(lookup.file_hash) => lookup.by_hash # NoMatch


Next == NextDetect \/ NextHeur \/ NextScan \/ NextProgress \/ NextSingleFile \/ NextQuarantine \/ NextQuarantineFaults \/ NextQuarantineCalls \/ NextDebounce
        \/ NextQuarantineSteps
           \/ NextRealtime \/ NextLifecycle \/ NextSignatures \/ NextCallbacks \/ NextStopping \/ NextShared

Spec == Init /\ [][Next]_vars

=============================================================================
